---------------------------- MODULE Spec2Model ----------------------------
(***************************************************************************)
(* A model of four parts of EuraliOS:                                      *)
(*   - the monotonic clock           (kernel/src/time.rs)   SpecClock      *)
(*   - the thread scheduler          (src/process.rs)       Spec           *)
(*   - the filesystem client library (euralios_std/src/fs.rs) SpecFs       *)
(* Each part has its own variables, initial predicate and next-state       *)
(* relation; a specification leaves the other parts' variables unchanged.  *)
(***************************************************************************)
EXTENDS Integers, Sequences, FiniteSets, TLC

(***************************************************************************)
(* Bounds of the model.                                                    *)
(***************************************************************************)
\* The hardware TSC advances in quanta of PIT_TICKS_PER_INTERRUPT counts;
\* it is followed for this many quanta.
MaxTscQuanta == 6
\* The largest number of quanta the TSC advances between two steps.
MaxJump == 3
\* PIT interrupts delivered.
MaxInterrupts == 3
\* Calls of microseconds_monotonic() followed.
MaxClockCalls == 2

VARIABLES
    \* ---- kernel/src/time.rs
    PIT_TICKS,        \* static PIT_TICKS  (AtomicU64)
    LAST_TSC,         \* static LAST_TSC   (AtomicU64)
    TSC_PER_PIT,      \* static TSC_PER_PIT (AtomicU64)
    hw_tsc,           \* the processor's Time Stamp Counter (RDTSC reads it)
    overflow_checks,  \* build profile: TRUE = arithmetic overflow panics
    rd_pc,            \* position of the thread inside microseconds_monotonic()
    rd_pit,           \* its local `pit`
    rd_now,           \* the value its time_stamp_counter() call returned
    rd_tsc,           \* its local `tsc` (a u64)
    clk_calls,        \* calls of microseconds_monotonic() started so far
    clk_prev,         \* value returned by the call before the last one (<<>>: none)
    clk_last,         \* value returned by the last completed call (<<>>: none)
    clk_last_rate,    \* the tsc_per_pit the last completed or failed call loaded
    clk_last_pit,     \* the pit the last completed or failed call loaded
    clk_panic,        \* "none", or why the kernel panicked
    clk_irqs,         \* history: PIT interrupts since the last call returned
    clk_gap,          \* history: PIT interrupts between the return of the
                      \*   call before and the start of the last call
    rd_epoch,         \* history: PIT_TICKS at the moment the call loaded
                      \*   LAST_TSC
    \* ---- src/process.rs
    RUNNING_QUEUE,    \* static RUNNING_QUEUE: VecDeque<Box<Thread>>
    CURRENT_THREAD,   \* static CURRENT_THREAD: Option<Box<Thread>>
                      \*   (<<>> is None, <<t>> is Some(t))
    active_pagetable, \* CR3: what memory::active_pagetable_physaddr() reads
    ist_timer,        \* Interrupt Stack Table entry of the timer vector
    heap_next,        \* next free address of the kernel heap
    frames_made,      \* page tables created by create_kernel_only_pagetable
    prog,             \* per execution context (0: the boot code, else the
                      \*   thread's kernel_stack): where it is inside
                      \*   new_user_thread, and its locals
    last_call,        \* the last new_kernel_thread or new_user_thread call
                      \*   that returned or panicked: input, result, and the
                      \*   active page table on entry and on return
    sched_ret,        \* what the last schedule_next call returned
    sched_resumed,    \* whether that call resumed a thread that ran before
    sched_panic,      \* "none", or why the kernel panicked
    due,              \* history: per thread, schedule_next calls still to
                      \*   come before its turn, counted from its enqueue
    ran_since,        \* history: per thread that had a turn, the threads
                      \*   that became current since its last turn began
    peers,            \* history: per preempted thread, the threads queued
                      \*   when its last turn ended
    made,             \* history: per thread, the call that created it and
                      \*   the page table it was created with
    cycle,            \* history: the last completed round of a thread: who
                      \*   ran between its two turns, who was queued when
                      \*   the first ended, who else existed at the second
    saved_table,      \* history: per preempted thread, the page table that
                      \*   was active when it was last preempted
    sched_idled,      \* history: whether the last schedule_next call found
                      \*   no thread to run
    \* ---- euralios_std/src/fs.rs
    fs_file,          \* the File: the CommHandle it wraps
    fs_buf,           \* the caller's Vec<u8> handed to read_to_end
    fs_op,            \* the last File operation called ("none" before any)
    fs_request,       \* the (tag, data1, data2) that operation gave to rcall
    fs_rcall,         \* what rcall returned to that operation
    fs_result,        \* what that operation returned to its caller
    \* ---- the file server behind the File (a cooperating one)
    srv_data,         \* the bytes the server holds for the path
    srv_mode,         \* how the server has fs_file open: "closed", "write",
                      \*   "read", or "eof" once it was read to the end
    fs_written,       \* history: the buffers written since File::create
    \* ---- euralios_std/src/fs.rs: read_dir and ReadDir
    dir_path,         \* the path of the last read_dir call ("" before any)
    dir_open,         \* what File::open returned in the last read_dir call:
                      \*   "ok", or the error ("none" before any call)
    dir_rcall,        \* what rcall returned to the query of that call
    dir_result,       \* what read_dir returned
    dir_entries,      \* ReadDir.entries of the iterator it returned
    dir_yielded,      \* history: what next() returned since, in order
    \* ---- init/src/main.rs
    init_pc,          \* where init is inside main() and mount()
    init_call,        \* which of the three mount() calls is running (0: none)
    init_locals,      \* the locals of main() and of the running mount()
    init_next_handle, \* the next handle number the kernel hands out
    init_log,         \* history: the new_rendezvous, exec and mount system
                      \*   calls made, in order, with their results
    init_panic,       \* "none", or the panic message
    \* ---- src/process.rs: the locks of the queue and the interrupt flag
    lk_if,            \* the processor's interrupt flag (RFLAGS.IF)
    lk_queue_lock,    \* RUNNING_QUEUE's RwLock: "free", or held by an
                      \*   "enqueue" or by the interrupt "handler"
    lk_current_lock,  \* CURRENT_THREAD's RwLock, likewise
    lk_queue,         \* the threads in RUNNING_QUEUE, by number
    lk_current,       \* the thread in CURRENT_THREAD (<<>> is None)
    lk_ctx,           \* per execution context (0: the boot code, else the
                      \*   thread's number): where it is inside an enqueue,
                      \*   the flag without_interrupts saved, and the
                      \*   interrupt flag in its saved RFLAGS
    lk_handler,       \* where the timer interrupt handler is inside
                      \*   schedule_next ("none": not running)
    lk_made,          \* threads created so far
    lk_deadlock       \* whether the handler waits for a lock whose holder
                      \*   it has interrupted

schedVars == <<RUNNING_QUEUE, CURRENT_THREAD, active_pagetable, ist_timer,
               heap_next, frames_made, prog, last_call, sched_ret,
               sched_resumed, sched_panic, due, ran_since, peers, made,
               cycle, saved_table, sched_idled>>

fsVars == <<fs_file, fs_buf, fs_op, fs_request, fs_rcall, fs_result>>

clockVars == <<PIT_TICKS, LAST_TSC, TSC_PER_PIT, hw_tsc, overflow_checks,
               rd_pc, rd_pit, rd_now, rd_tsc, clk_calls, clk_prev, clk_last,
               clk_last_rate, clk_last_pit, clk_panic, clk_irqs, clk_gap,
               rd_epoch>>

srvVars == <<srv_data, srv_mode, fs_written>>

dirVars == <<dir_path, dir_open, dir_rcall, dir_result, dir_entries, dir_yielded>>

initVars == <<init_pc, init_call, init_locals, init_next_handle, init_log,
              init_panic>>

lockVars == <<lk_if, lk_queue_lock, lk_current_lock, lk_queue, lk_current,
              lk_ctx, lk_handler, lk_made, lk_deadlock>>

vars == <<clockVars, schedVars, fsVars, srvVars, dirVars, initVars, lockVars>>

\* What each part leaves alone.
notClock ==
    <<schedVars, fsVars, srvVars, dirVars, initVars, lockVars>>

notSched ==
    <<clockVars, fsVars, srvVars, dirVars, initVars, lockVars>>

notFs ==
    <<clockVars, schedVars, srvVars, dirVars, initVars, lockVars>>

notFsServer ==
    <<clockVars, schedVars, dirVars, initVars, lockVars>>

notDir ==
    <<clockVars, schedVars, fsVars, srvVars, initVars, lockVars>>

notInit ==
    <<clockVars, schedVars, fsVars, srvVars, dirVars, lockVars>>

notLock == <<clockVars, schedVars, fsVars, srvVars, dirVars, initVars>>

(***************************************************************************)
(* u64 arithmetic.  A u64 is four 16-bit limbs, least significant first,   *)
(* so that the wrapping (mod 2^64) results of a release build are computed *)
(* exactly.                                                                *)
(***************************************************************************)
LimbBase == 256 * 256

U64(n) == <<n % LimbBase, (n \div LimbBase) % LimbBase, 0, 0>>

U64Zero == <<0, 0, 0, 0>>

RECURSIVE AddLimbs(_, _, _, _)
AddLimbs(a, b, i, carry) ==
    IF i > 4 THEN <<>>
    ELSE LET s == a[i] + b[i] + carry
         IN  <<s % LimbBase>> \o AddLimbs(a, b, i + 1, s \div LimbBase)

\* a + b (mod 2^64)
U64Add(a, b) == AddLimbs(a, b, 1, 0)

RECURSIVE SubLimbs(_, _, _, _)
SubLimbs(a, b, i, borrow) ==
    IF i > 4 THEN <<>>
    ELSE LET d == a[i] - b[i] - borrow
         IN  <<(d + LimbBase) % LimbBase>> \o
             SubLimbs(a, b, i + 1, IF d < 0 THEN 1 ELSE 0)

\* a - b (mod 2^64)
U64Sub(a, b) == SubLimbs(a, b, 1, 0)

RECURSIVE MulLimbs(_, _, _, _)
MulLimbs(a, m, i, carry) ==
    IF i > 4 THEN <<>>
    ELSE LET p == a[i] * m + carry
         IN  <<p % LimbBase>> \o MulLimbs(a, m, i + 1, p \div LimbBase)

\* a * m (mod 2^64), for a multiplier m < 2^15
U64Mul(a, m) == MulLimbs(a, m, 1, 0)

RECURSIVE DivLimbs(_, _, _, _)
DivLimbs(a, d, i, rem) ==
    IF i < 1 THEN <<>>
    ELSE LET cur == rem * LimbBase + a[i]
         IN  DivLimbs(a, d, i - 1, cur % d) \o <<cur \div d>>

\* floor(a / d), for a divisor 0 < d <= 2^15
U64Div(a, d) == DivLimbs(a, d, 4, 0)

RECURSIVE LessFrom(_, _, _)
LessFrom(a, b, i) ==
    IF i < 1 THEN FALSE
    ELSE IF a[i] # b[i] THEN a[i] < b[i]
    ELSE LessFrom(a, b, i - 1)

U64Less(a, b) == LessFrom(a, b, 4)

U64Leq(a, b) == ~U64Less(b, a)

(***************************************************************************)
(* kernel/src/time.rs                                                      *)
(***************************************************************************)
PIT_TICKS_PER_INTERRUPT == 65536

scaled_tsc_rate == 32

\* time_stamp_counter(): RDTSC
time_stamp_counter == hw_tsc

\* Line 75: (tsc * scaled_tsc_rate) / tsc_per_pit, for tsc_per_pit > 0.
ScaledTsc(tsc, tsc_per_pit) == U64Div(U64Mul(tsc, scaled_tsc_rate), tsc_per_pit)

\* Line 78: ((((pit * scaled_tsc_rate + scaled_tsc) * 2011) / 1024) * 437)
\*          / (1024 * scaled_tsc_rate)
MicrosFrom(pit, scaled_tsc) ==
    U64Div(
        U64Mul(
            U64Div(
                U64Mul(U64Add(U64Mul(U64(pit), scaled_tsc_rate), scaled_tsc),
                       2011),
                1024),
            437),
        1024 * scaled_tsc_rate)

\* The new moving average of line 42-43.
MovingAverage(new_tsc, last_tsc, old_rate) ==
    (((new_tsc - last_tsc) \div PIT_TICKS_PER_INTERRUPT) + old_rate) \div 2

\* pit_interrupt_notify(): runs inside the timer interrupt handler, so it is
\* one step for the code it interrupts.
pit_interrupt_notify ==
    /\ clk_panic = "none"
    /\ PIT_TICKS < MaxInterrupts * PIT_TICKS_PER_INTERRUPT
    /\ PIT_TICKS' = PIT_TICKS + PIT_TICKS_PER_INTERRUPT
    /\ LET new_tsc == time_stamp_counter
           last_tsc == LAST_TSC
       IN  /\ LAST_TSC' = new_tsc
           /\ IF new_tsc >= last_tsc
              THEN /\ TSC_PER_PIT' = MovingAverage(new_tsc, last_tsc, TSC_PER_PIT)
                   /\ UNCHANGED clk_panic
              ELSE \* new_tsc - last_tsc overflows
                   /\ clk_panic' = "pit_sub_overflow"
                   /\ UNCHANGED TSC_PER_PIT
    /\ UNCHANGED <<hw_tsc, overflow_checks, rd_pc, rd_pit, rd_now, rd_tsc,
                   clk_calls, clk_prev, clk_last, clk_last_rate, clk_last_pit>>
    /\ clk_irqs' = IF rd_pc = "done" THEN clk_irqs + 1 ELSE clk_irqs
    /\ UNCHANGED <<clk_gap, rd_epoch>>
    /\ UNCHANGED notClock

\* The hardware counter runs on between any two steps.
TscAdvance ==
    /\ clk_panic = "none"
    /\ \E k \in 1..MaxJump :
          /\ hw_tsc + k * PIT_TICKS_PER_INTERRUPT
                <= MaxTscQuanta * PIT_TICKS_PER_INTERRUPT
          /\ hw_tsc' = hw_tsc + k * PIT_TICKS_PER_INTERRUPT
    /\ UNCHANGED <<PIT_TICKS, LAST_TSC, TSC_PER_PIT, overflow_checks, rd_pc,
                   rd_pit, rd_now, rd_tsc, clk_calls, clk_prev, clk_last,
                   clk_last_rate, clk_last_pit, clk_panic>>
    /\ UNCHANGED <<clk_irqs, clk_gap, rd_epoch>>
    /\ UNCHANGED notClock

\* microseconds_monotonic(), line 53: let pit = PIT_TICKS.load()
ReadPit ==
    /\ clk_panic = "none"
    /\ rd_pc \in {"idle", "done"}
    /\ clk_calls < MaxClockCalls
    /\ clk_calls' = clk_calls + 1
    /\ rd_pit' = PIT_TICKS
    /\ rd_pc' = "l55_rdtsc"
    /\ UNCHANGED <<PIT_TICKS, LAST_TSC, TSC_PER_PIT, hw_tsc, overflow_checks,
                   rd_now, rd_tsc, clk_prev, clk_last, clk_last_rate,
                   clk_last_pit, clk_panic>>
    /\ clk_gap' = clk_irqs
    /\ clk_irqs' = 0
    /\ UNCHANGED rd_epoch
    /\ UNCHANGED notClock

\* line 55, left operand: time_stamp_counter()
ReadTsc ==
    /\ clk_panic = "none"
    /\ rd_pc = "l55_rdtsc"
    /\ rd_now' = time_stamp_counter
    /\ rd_pc' = "l55_sub"
    /\ UNCHANGED <<PIT_TICKS, LAST_TSC, TSC_PER_PIT, hw_tsc, overflow_checks,
                   rd_pit, rd_tsc, clk_calls, clk_prev, clk_last,
                   clk_last_rate, clk_last_pit, clk_panic>>
    /\ UNCHANGED <<clk_irqs, clk_gap, rd_epoch>>
    /\ UNCHANGED notClock

\* line 55, right operand and the subtraction: ... - LAST_TSC.load().
\* The subtraction overflows when an interrupt stored a later TSC sample
\* after the reader took its own: a panic with overflow checks, the wrapped
\* difference without.
SubLastTsc ==
    /\ clk_panic = "none"
    /\ rd_pc = "l55_sub"
    /\ IF rd_now < LAST_TSC /\ overflow_checks
       THEN /\ clk_panic' = "sub_overflow"
            /\ UNCHANGED <<rd_tsc, rd_pc>>
       ELSE /\ rd_tsc' = U64Sub(U64(rd_now), U64(LAST_TSC))
            /\ rd_pc' = "l58"
            /\ UNCHANGED clk_panic
    /\ UNCHANGED <<PIT_TICKS, LAST_TSC, TSC_PER_PIT, hw_tsc, overflow_checks,
                   rd_pit, rd_now, clk_calls, clk_prev, clk_last,
                   clk_last_rate, clk_last_pit>>
    /\ rd_epoch' = PIT_TICKS
    /\ UNCHANGED <<clk_irqs, clk_gap>>
    /\ UNCHANGED notClock

\* lines 58-78: load TSC_PER_PIT, scale, combine and return.  A u64 division
\* by zero panics in every build.  With overflow checks the multiplication
\* tsc * scaled_tsc_rate panics when it exceeds 2^64 (only a wrapped tsc is
\* that large within the bounds).
FinishMicros ==
    /\ clk_panic = "none"
    /\ rd_pc = "l58"
    /\ LET tsc_per_pit == TSC_PER_PIT
       IN  /\ clk_last_rate' = tsc_per_pit
           /\ clk_last_pit' = rd_pit
           /\ IF tsc_per_pit = 0
              THEN /\ clk_panic' = "div_by_zero"
                   /\ UNCHANGED <<rd_pc, clk_prev, clk_last>>
              ELSE /\ clk_prev' = clk_last
                   /\ clk_last' = MicrosFrom(rd_pit, ScaledTsc(rd_tsc, tsc_per_pit))
                   /\ rd_pc' = "done"
                   /\ UNCHANGED clk_panic
    /\ UNCHANGED <<PIT_TICKS, LAST_TSC, TSC_PER_PIT, hw_tsc, overflow_checks,
                   rd_pit, rd_now, rd_tsc, clk_calls>>
    /\ UNCHANGED <<clk_irqs, clk_gap, rd_epoch>>
    /\ UNCHANGED notClock

ClockInit ==
    /\ PIT_TICKS = 0
    /\ LAST_TSC = 0
    /\ TSC_PER_PIT = 0
    /\ hw_tsc = 0
    /\ rd_pc = "idle"
    /\ rd_pit = 0
    /\ rd_now = 0
    /\ rd_tsc = U64Zero
    /\ clk_calls = 0
    /\ clk_prev = <<>>
    /\ clk_last = <<>>
    /\ clk_last_rate = 0
    /\ clk_last_pit = 0
    /\ clk_panic = "none"
    /\ clk_irqs = 0
    /\ clk_gap = 0
    /\ rd_epoch = 0

ClockSteps ==
    \/ pit_interrupt_notify
    \/ TscAdvance
    \/ ReadPit
    \/ ReadTsc
    \/ SubLastTsc
    \/ FinishMicros



(***************************************************************************)
(* src/process.rs                                                          *)
(***************************************************************************)
\* Threads created (kernel and user threads together).
MaxThreads == 3
\* Page tables created by new_user_thread calls.
MaxPageTables == 2

KERNEL_STACK_SIZE == 4096 * 2

USER_STACK_SIZE == 4096 * 5

\* crate::interrupts::INTERRUPT_CONTEXT_SIZE: the Context frame, fifteen
\* general-purpose registers and the five words the processor pushes.
INTERRUPT_CONTEXT_SIZE == 20 * 8

ELF_MAGIC == <<127, 69, 76, 70>>

\* The kernel heap: allocations are handed out one after the other, so two
\* live allocations never overlap.
HEAP_START == 4096 * 16

\* The interrupt stack the timer vector uses before the first thread runs.
BOOT_STACK_END == HEAP_START

PAGE_SIZE == 4096

\* The page table the kernel boots with.
BOOT_PAGETABLE == PAGE_SIZE

\* memory::create_kernel_only_pagetable(): the physical address of a frame
\* no page table uses yet.
create_kernel_only_pagetable == (frames_made + 2) * PAGE_SIZE

\* The binaries handed to new_user_thread: the leading bytes of the file,
\* whether object::File::parse accepts it, and per segment whether
\* segment.data() is readable.
ElfInputs ==
    { [bytes |-> <<127, 69, 76>>, parses |-> FALSE, segments |-> <<>>],
      [bytes |-> <<127, 69, 76, 71>>, parses |-> FALSE, segments |-> <<>>],
      [bytes |-> ELF_MAGIC \o <<9>>, parses |-> FALSE, segments |-> <<>>],
      [bytes |-> ELF_MAGIC \o <<2>>, parses |-> TRUE, segments |-> <<TRUE>>],
      [bytes |-> ELF_MAGIC \o <<2>>, parses |-> TRUE,
       segments |-> <<TRUE, FALSE>>] }

NoBin == [bytes |-> <<>>, parses |-> FALSE, segments |-> <<>>]

\* No thread has completed a round yet.
NoCycle == [thread |-> 0, ran |-> <<>>, peers |-> {}, others |-> {}]

\* An execution context that is inside no call.
IdleProg ==
    [ pc |-> "idle", bin |-> NoBin, segs |-> <<>>,
      user_page_table_physaddr |-> 0, original_page_table |-> 0,
      entry_pagetable |-> 0, value |-> 0, created |-> 0,
      preempted |-> FALSE ]

NoCall ==
    [ call |-> "none", caller |-> 0, bin |-> NoBin, result |-> "none",
      value |-> 0, created |-> 0, entry_pagetable |-> 0,
      exit_pagetable |-> 0, preempted |-> FALSE ]

\* The record of a new_user_thread call of context c that ends now.
Returned(c, result) ==
    [ call |-> "new_user_thread", caller |-> c, bin |-> prog[c].bin,
      result |-> result, value |-> prog[c].value,
      created |-> prog[c].created,
      entry_pagetable |-> prog[c].entry_pagetable,
      exit_pagetable |-> active_pagetable,
      preempted |-> prog[c].preempted ]

\* The context that is executing: the current thread, or the boot code.
cpu == IF CURRENT_THREAD = <<>> THEN 0 ELSE CURRENT_THREAD[1].kernel_stack

AllThreads == RUNNING_QUEUE \o CURRENT_THREAD

ThreadIds(q) == { q[i].kernel_stack : i \in 1..Len(q) }

InFlight == Cardinality({ c \in DOMAIN prog : prog[c].pc # "idle" })

\* No context address recorded.
InitialContextNull(kernel_stack_end) == 0

\* The context placed at the very end of the stack.
InitialContextAtEnd(kernel_stack_end) == kernel_stack_end

\* Lines 142 and 256: context: kernel_stack_end - INTERRUPT_CONTEXT_SIZE
InitialContext(kernel_stack_end) == kernel_stack_end - INTERRUPT_CONTEXT_SIZE

\* Lines 130-145: the Thread of new_kernel_thread.
KernelThread(kernel_stack, user_stack) ==
    [ tid |-> 0,
      page_table_physaddr |-> 0,
      kernel_stack |-> kernel_stack,
      kernel_stack_end |-> kernel_stack + KERNEL_STACK_SIZE,
      context |-> InitialContext(kernel_stack + KERNEL_STACK_SIZE),
      user_stack |-> user_stack ]

\* The thread built without its page table.
UserThreadNoTable(kernel_stack, user_page_table_physaddr) ==
    [ tid |-> 0,
      page_table_physaddr |-> 0,
      kernel_stack |-> kernel_stack,
      kernel_stack_end |-> kernel_stack + KERNEL_STACK_SIZE,
      context |-> InitialContext(kernel_stack + KERNEL_STACK_SIZE),
      user_stack |-> 0 ]

\* Lines 244-260: the Thread of new_user_thread (user_stack: Vec::new()).
UserThread(kernel_stack, user_page_table_physaddr) ==
    [ tid |-> 0,
      page_table_physaddr |-> user_page_table_physaddr,
      kernel_stack |-> kernel_stack,
      kernel_stack_end |-> kernel_stack + KERNEL_STACK_SIZE,
      context |-> InitialContext(kernel_stack + KERNEL_STACK_SIZE),
      user_stack |-> 0 ]

\* new_kernel_thread(function), lines 125-178.  Its one effect on shared
\* state is the push_back, made with interrupts off.
new_kernel_thread ==
    /\ sched_panic = "none"
    /\ prog[cpu].pc = "idle"
    /\ Len(AllThreads) + InFlight < MaxThreads
    /\ LET kernel_stack == heap_next
           user_stack == heap_next + KERNEL_STACK_SIZE
           new_thread == KernelThread(kernel_stack, user_stack)
           tid == new_thread.tid
       IN  /\ heap_next' = user_stack + USER_STACK_SIZE
           /\ RUNNING_QUEUE' = Append(RUNNING_QUEUE, new_thread)
           /\ due' = due @@ (kernel_stack :> Len(RUNNING_QUEUE) + 1)
           /\ made' = made @@ (kernel_stack :>
                                  [by |-> "new_kernel_thread",
                                   table |-> new_thread.page_table_physaddr])
           /\ prog' = prog @@ (kernel_stack :> IdleProg)
           /\ last_call' = [NoCall EXCEPT !.call = "new_kernel_thread",
                                          !.caller = cpu,
                                          !.result = "ok",
                                          !.value = tid,
                                          !.created = kernel_stack,
                                          !.entry_pagetable = active_pagetable,
                                          !.exit_pagetable = active_pagetable]
    /\ UNCHANGED <<CURRENT_THREAD, active_pagetable, ist_timer, frames_made,
                   sched_ret, sched_resumed, sched_panic, ran_since, peers,
                   cycle>>
    /\ UNCHANGED <<saved_table, sched_idled>>
    /\ UNCHANGED notSched

\* Line 184: bin[0..4] != ELF_MAGIC.  Slicing a shorter input panics.
MagicCheck(bin) ==
    IF Len(bin.bytes) < 4 THEN "panic"
    ELSE IF SubSeq(bin.bytes, 1, 4) # ELF_MAGIC THEN "Expected ELF binary"
    ELSE "ok"

\* new_user_thread(bin), lines 180-193: the checks, then the new page table.
new_user_thread_enter ==
    /\ sched_panic = "none"
    /\ prog[cpu].pc = "idle"
    /\ Len(AllThreads) + InFlight < MaxThreads
    /\ \E bin \in ElfInputs :
          LET ended(result) ==
                  [NoCall EXCEPT !.call = "new_user_thread",
                                 !.caller = cpu,
                                 !.bin = bin,
                                 !.result = result,
                                 !.entry_pagetable = active_pagetable,
                                 !.exit_pagetable = active_pagetable]
          IN  CASE MagicCheck(bin) = "panic" ->
                     /\ sched_panic' = "range end index 4 out of range"
                     /\ last_call' = ended("panic")
                     /\ UNCHANGED <<frames_made, prog>>
                [] MagicCheck(bin) = "Expected ELF binary" ->
                     /\ last_call' = ended("Expected ELF binary")
                     /\ UNCHANGED <<frames_made, prog, sched_panic>>
                [] MagicCheck(bin) = "ok" /\ ~bin.parses ->
                     /\ last_call' = ended("Could not parse ELF")
                     /\ UNCHANGED <<frames_made, prog, sched_panic>>
                [] MagicCheck(bin) = "ok" /\ bin.parses ->
                     /\ frames_made < MaxPageTables
                     /\ frames_made' = frames_made + 1
                     /\ prog' = [prog EXCEPT ![cpu] =
                                    [IdleProg EXCEPT
                                        !.pc = "l196",
                                        !.bin = bin,
                                        !.segs = bin.segments,
                                        !.entry_pagetable = active_pagetable,
                                        !.user_page_table_physaddr =
                                            create_kernel_only_pagetable]]
                     /\ UNCHANGED <<last_call, sched_panic>>
    /\ UNCHANGED <<RUNNING_QUEUE, CURRENT_THREAD, active_pagetable, ist_timer,
                   heap_next, sched_ret, sched_resumed, due, ran_since, peers,
                   made, cycle>>
    /\ UNCHANGED <<saved_table, sched_idled>>
    /\ UNCHANGED notSched

\* Line 196: let original_page_table = memory::active_pagetable_physaddr()
new_user_thread_l196 ==
    /\ sched_panic = "none"
    /\ prog[cpu].pc = "l196"
    /\ prog' = [prog EXCEPT ![cpu].original_page_table = active_pagetable,
                            ![cpu].pc = "l202"]
    /\ UNCHANGED <<RUNNING_QUEUE, CURRENT_THREAD, active_pagetable, ist_timer,
                   heap_next, frames_made, last_call, sched_ret,
                   sched_resumed, sched_panic, due, ran_since, peers, made,
                   cycle>>
    /\ UNCHANGED <<saved_table, sched_idled>>
    /\ UNCHANGED notSched

\* Line 202: memory::switch_to_pagetable(user_page_table_physaddr)
new_user_thread_l202 ==
    /\ sched_panic = "none"
    /\ prog[cpu].pc = "l202"
    /\ active_pagetable' = prog[cpu].user_page_table_physaddr
    /\ prog' = [prog EXCEPT ![cpu].pc = "l207"]
    /\ UNCHANGED <<RUNNING_QUEUE, CURRENT_THREAD, ist_timer, heap_next,
                   frames_made, last_call, sched_ret, sched_resumed,
                   sched_panic, due, ran_since, peers, made, cycle>>
    /\ UNCHANGED <<saved_table, sched_idled>>
    /\ UNCHANGED notSched

\* Lines 207-233: one segment whose data is readable is mapped and copied.
new_user_thread_segment ==
    /\ sched_panic = "none"
    /\ prog[cpu].pc = "l207"
    /\ prog[cpu].segs # <<>>
    /\ Head(prog[cpu].segs)
    /\ prog' = [prog EXCEPT ![cpu].segs = Tail(@)]
    /\ UNCHANGED <<RUNNING_QUEUE, CURRENT_THREAD, active_pagetable, ist_timer,
                   heap_next, frames_made, last_call, sched_ret,
                   sched_resumed, sched_panic, due, ran_since, peers, made,
                   cycle>>
    /\ UNCHANGED <<saved_table, sched_idled>>
    /\ UNCHANGED notSched

\* Line 236: memory::switch_to_pagetable(original_page_table)
SwitchBack(original_page_table, active) == original_page_table

\* Lines 234-236: a segment without data: switch back ...
new_user_thread_l236 ==
    /\ sched_panic = "none"
    /\ prog[cpu].pc = "l207"
    /\ prog[cpu].segs # <<>>
    /\ ~Head(prog[cpu].segs)
    /\ active_pagetable' = SwitchBack(prog[cpu].original_page_table,
                                      active_pagetable)
    /\ prog' = [prog EXCEPT ![cpu].pc = "l237"]
    /\ UNCHANGED <<RUNNING_QUEUE, CURRENT_THREAD, ist_timer, heap_next,
                   frames_made, last_call, sched_ret, sched_resumed,
                   sched_panic, due, ran_since, peers, made, cycle>>
    /\ UNCHANGED <<saved_table, sched_idled>>
    /\ UNCHANGED notSched

\* Line 237: ... and return Err("Could not get segment data")
new_user_thread_l237 ==
    /\ sched_panic = "none"
    /\ prog[cpu].pc = "l237"
    /\ last_call' = Returned(cpu, "Could not get segment data")
    /\ prog' = [prog EXCEPT ![cpu] = IdleProg]
    /\ UNCHANGED <<RUNNING_QUEUE, CURRENT_THREAD, active_pagetable, ist_timer,
                   heap_next, frames_made, sched_ret, sched_resumed,
                   sched_panic, due, ran_since, peers, made, cycle>>
    /\ UNCHANGED <<saved_table, sched_idled>>
    /\ UNCHANGED notSched

\* Line 241: after the last segment, switch back to the original page table.
new_user_thread_l241 ==
    /\ sched_panic = "none"
    /\ prog[cpu].pc = "l207"
    /\ prog[cpu].segs = <<>>
    /\ active_pagetable' = prog[cpu].original_page_table
    /\ prog' = [prog EXCEPT ![cpu].pc = "l244"]
    /\ UNCHANGED <<RUNNING_QUEUE, CURRENT_THREAD, ist_timer, heap_next,
                   frames_made, last_call, sched_ret, sched_resumed,
                   sched_panic, due, ran_since, peers, made, cycle>>
    /\ UNCHANGED <<saved_table, sched_idled>>
    /\ UNCHANGED notSched

\* Lines 244-294: build the Thread and push it, with interrupts off.
new_user_thread_l244 ==
    /\ sched_panic = "none"
    /\ prog[cpu].pc = "l244"
    /\ LET kernel_stack == heap_next
           new_thread == UserThread(kernel_stack,
                                    prog[cpu].user_page_table_physaddr)
           tid == new_thread.tid
       IN  /\ heap_next' = kernel_stack + KERNEL_STACK_SIZE
           /\ RUNNING_QUEUE' = Append(RUNNING_QUEUE, new_thread)
           /\ due' = due @@ (kernel_stack :> Len(RUNNING_QUEUE) + 1)
           /\ made' = made @@ (kernel_stack :>
                                  [by |-> "new_user_thread",
                                   table |-> new_thread.page_table_physaddr])
           /\ prog' = [prog EXCEPT ![cpu].pc = "l296",
                                   ![cpu].value = tid,
                                   ![cpu].created = kernel_stack]
                      @@ (kernel_stack :> IdleProg)
    /\ UNCHANGED <<CURRENT_THREAD, active_pagetable, ist_timer, frames_made,
                   last_call, sched_ret, sched_resumed, sched_panic,
                   ran_since, peers, cycle>>
    /\ UNCHANGED <<saved_table, sched_idled>>
    /\ UNCHANGED notSched

\* Line 296: return Ok(tid)
new_user_thread_l296 ==
    /\ sched_panic = "none"
    /\ prog[cpu].pc = "l296"
    /\ last_call' = Returned(cpu, "ok")
    /\ prog' = [prog EXCEPT ![cpu] = IdleProg]
    /\ UNCHANGED <<RUNNING_QUEUE, CURRENT_THREAD, active_pagetable, ist_timer,
                   heap_next, frames_made, sched_ret, sched_resumed,
                   sched_panic, due, ran_since, peers, made, cycle>>
    /\ UNCHANGED <<saved_table, sched_idled>>
    /\ UNCHANGED notSched

\* The preempted thread's page table left unsaved.
SaveContextOnly(thread, context, active) ==
    [thread EXCEPT !.context = context]

\* Lines 320 and 325: the preempted thread keeps the context address and the
\* active page table.
SaveOnPreempt(thread, context, active) ==
    [thread EXCEPT !.context = context, !.page_table_physaddr = active]

\* pop_back() instead of pop_front(): the tail is taken.
pop_back(queue) ==
    [ value |-> IF queue = <<>> THEN <<>> ELSE <<queue[Len(queue)]>>,
      rest |-> IF queue = <<>> THEN <<>>
               ELSE SubSeq(queue, 1, Len(queue) - 1) ]

\* front() instead of pop_front(): the head is read and stays queued.
front_only(queue) ==
    [ value |-> IF queue = <<>> THEN <<>> ELSE <<Head(queue)>>,
      rest |-> queue ]

\* Line 329: running_queue.pop_front()
pop_front(queue) ==
    [ value |-> IF queue = <<>> THEN <<>> ELSE <<Head(queue)>>,
      rest |-> IF queue = <<>> THEN <<>> ELSE Tail(queue) ]

\* push_front() instead of push_back().
push_front(queue, thread) == <<thread>> \o queue

\* Line 327: running_queue.push_back(thread_mut)
push_back(queue, thread) == Append(queue, thread)

\* The page table left as it is when a thread is resumed.
PageTableKept(thread, active) == active

\* Lines 339-343: the page table after the switch to `thread`.
PageTableOnSwitch(thread, active) ==
    IF thread.page_table_physaddr # 0 THEN thread.page_table_physaddr
    ELSE active

\* Whether context c has the page table it is building switched in.
BuildingTable(c) == prog[c].pc \in {"l207"}

\* schedule_next(context), lines 305-351, as one step: it runs inside the
\* timer interrupt handler.
schedule_next(context) ==
    LET current == CURRENT_THREAD
        before == RUNNING_QUEUE
        requeued == IF current # <<>>
                    THEN push_back(before,
                                   SaveOnPreempt(current[1], context,
                                                 active_pagetable))
                    ELSE before
        popped == pop_front(requeued)
        next == popped.value
        old_ids == ThreadIds(current)
        next_ids == ThreadIds(next)
    IN  /\ RUNNING_QUEUE' = popped.rest
        /\ CURRENT_THREAD' = next
        /\ IF next # <<>>
           THEN /\ ist_timer' = next[1].kernel_stack_end
                /\ active_pagetable' = PageTableOnSwitch(next[1], active_pagetable)
                /\ sched_ret' = next[1].context
                /\ sched_resumed' = (next[1].kernel_stack \in DOMAIN ran_since)
           ELSE /\ sched_ret' = 0
                /\ sched_resumed' = FALSE
                /\ UNCHANGED <<ist_timer, active_pagetable>>
        \* history
        /\ due' = [t \in DOMAIN due |->
                      IF t \in old_ids THEN Len(before)
                      ELSE IF t \in ThreadIds(before) THEN due[t] - 1
                      ELSE due[t]]
        /\ ran_since' =
              IF next = <<>> THEN ran_since
              ELSE [t \in DOMAIN ran_since \cup next_ids |->
                       IF t \in next_ids THEN <<>>
                       ELSE Append(ran_since[t], next[1].kernel_stack)]
        /\ peers' = [t \in DOMAIN peers \cup old_ids |->
                        IF t \in old_ids THEN ThreadIds(before) ELSE peers[t]]
        /\ cycle' =
              IF next # <<>> /\ next[1].kernel_stack \in DOMAIN ran_since
              THEN LET s == next[1].kernel_stack
                   IN  [ thread |-> s,
                         ran |-> ran_since[s],
                         peers |-> IF s \in old_ids THEN ThreadIds(before)
                                   ELSE peers[s],
                         others |-> (ThreadIds(requeued)) \ {s} ]
              ELSE cycle
        /\ saved_table' = [t \in DOMAIN saved_table \cup old_ids |->
                              IF t \in old_ids THEN active_pagetable
                              ELSE saved_table[t]]
        /\ sched_idled' = (next = <<>>)
        /\ prog' = [c \in DOMAIN prog |->
                       IF c = cpu /\ BuildingTable(c) /\ next_ids # {c}
                       THEN [prog[c] EXCEPT !.preempted = TRUE]
                       ELSE prog[c]]

\* The timer interrupt: the processor switches to the stack the timer's
\* Interrupt Stack Table entry names, the entry stub pushes the Context
\* there and calls schedule_next with its address.
TimerInterrupt ==
    /\ sched_panic = "none"
    /\ schedule_next(ist_timer - INTERRUPT_CONTEXT_SIZE)
    /\ UNCHANGED <<heap_next, frames_made, last_call, sched_panic, made>>
    /\ UNCHANGED notSched

SchedInit ==
    /\ RUNNING_QUEUE = <<>>
    /\ CURRENT_THREAD = <<>>
    /\ active_pagetable = BOOT_PAGETABLE
    /\ ist_timer = BOOT_STACK_END
    /\ heap_next = HEAP_START
    /\ frames_made = 0
    /\ prog = (0 :> IdleProg)
    /\ last_call = NoCall
    /\ sched_ret = 0
    /\ sched_resumed = FALSE
    /\ sched_panic = "none"
    /\ due = <<>>
    /\ ran_since = <<>>
    /\ peers = <<>>
    /\ made = <<>>
    /\ cycle = NoCycle
    /\ saved_table = <<>>
    /\ sched_idled = FALSE

SchedNext ==
    \/ new_kernel_thread
    \/ new_user_thread_enter
    \/ new_user_thread_l196
    \/ new_user_thread_l202
    \/ new_user_thread_segment
    \/ new_user_thread_l236
    \/ new_user_thread_l237
    \/ new_user_thread_l241
    \/ new_user_thread_l244
    \/ new_user_thread_l296
    \/ TimerInterrupt

(***************************************************************************)
(* euralios_std/src/fs.rs                                                  *)
(***************************************************************************)
\* The longest buffer read_to_end is followed to.
MaxBufLen == 3
\* The longest byte string a server reply or a write carries.
MaxDataLen == 2

FsBytes == {65, 66}

ByteStrings == UNION { [1..n -> FsBytes] : n \in 0..MaxDataLen }

\* syscalls::SyscallError
SYSCALL_ERROR_PARAM == "InvalidParam"

SyscallErrors == {"InvalidParam", "NotFound", "PermissionDenied", "ChannelClosed"}

\* message::MessageData
Value(n) == [kind |-> "Value", value |-> n, bytes |-> <<>>]

MemoryHandle(bytes) == [kind |-> "MemoryHandle", value |-> 0, bytes |-> bytes]

CommHandle(h) == [kind |-> "CommHandle", value |-> h, bytes |-> <<>>]

NoData == Value(0)

\* The Result rcall returns: Ok((tag, data1, data2)) or Err((err, message)).
RcallOk(tag, data1, data2) ==
    [ok |-> TRUE, tag |-> tag, data1 |-> data1, data2 |-> data2, err |-> "none"]

RcallErr(err) ==
    [ok |-> FALSE, tag |-> "none", data1 |-> NoData, data2 |-> NoData, err |-> err]

NoRcall == RcallErr("none")

\* The Result a File operation returns.
Ok(v) == [ok |-> TRUE, value |-> v, err |-> "none"]

Err(e) == [ok |-> FALSE, value |-> 0, err |-> e]

NoResult == Err("none")

\* MemoryHandle::as_slice::<u8>(length), for a length within the region.
as_slice(handle, length) == SubSeq(handle.bytes, 1, length)

\* str::from_utf8: a byte above 0x7f on its own is no UTF-8.
from_utf8_ok(bytes) == \A i \in 1..Len(bytes) : bytes[i] < 128

\* serde_json::Value: null, a number, a string, an array of values, or an
\* object, a list of (key, value) members.
JValue(type, str, items, members) ==
    [type |-> type, str |-> str, items |-> items, members |-> members]

JNull == JValue("null", "", <<>>, <<>>)

JNum == JValue("number", "1", <<>>, <<>>)

JStr(s) == JValue("string", s, <<>>, <<>>)

JArr(items) == JValue("array", "", items, <<>>)

JObj(members) == JValue("object", "", <<>>, members)

Member(key, value) == [key |-> key, value |-> value]

\* The object {"name": "<name>"}.
Named(name) == JObj(<<Member("name", JStr(name))>>)

\* The JSON documents the replies carry, as text and as parsed value.
JsonDocuments ==
    << \* {}
       [ text |-> <<123, 125>>,
         json |-> JObj(<<>>) ],
       \* []
       [ text |-> <<91, 93>>,
         json |-> JArr(<<>>) ],
       \* {"files":1}
       [ text |-> <<123, 34, 102, 105, 108, 101, 115, 34, 58, 49, 125>>,
         json |-> JObj(<<Member("files", JNum)>>) ],
       \* {"files":[]}
       [ text |-> <<123, 34, 102, 105, 108, 101, 115, 34, 58, 91, 93, 125>>,
         json |-> JObj(<<Member("files", JArr(<<>>))>>) ],
       \* {"files":[{"name":"a"}]}
       [ text |-> <<123, 34, 102, 105, 108, 101, 115, 34, 58, 91, 123, 34, 110,
                   97, 109, 101, 34, 58, 34, 97, 34, 125, 93, 125>>,
         json |-> JObj(<<Member("files", JArr(<<Named("a")>>))>>) ],
       \* {"files":[{"name":"a"},{"name":"b"}]}
       [ text |-> <<123, 34, 102, 105, 108, 101, 115, 34, 58, 91, 123, 34, 110,
                   97, 109, 101, 34, 58, 34, 97, 34, 125, 44, 123, 34, 110,
                   97, 109, 101, 34, 58, 34, 98, 34, 125, 93, 125>>,
         json |-> JObj(<<Member("files", JArr(<<Named("a"), Named("b")>>))>>) ],
       \* {"files":[{"name":"a"},{"name":"a"}]}
       [ text |-> <<123, 34, 102, 105, 108, 101, 115, 34, 58, 91, 123, 34, 110,
                   97, 109, 101, 34, 58, 34, 97, 34, 125, 44, 123, 34, 110,
                   97, 109, 101, 34, 58, 34, 97, 34, 125, 93, 125>>,
         json |-> JObj(<<Member("files", JArr(<<Named("a"), Named("a")>>))>>) ],
       \* {"files":[{"name":"a"},{"x":1},{"name":"b"}]}
       [ text |-> <<123, 34, 102, 105, 108, 101, 115, 34, 58, 91, 123, 34, 110,
                   97, 109, 101, 34, 58, 34, 97, 34, 125, 44, 123, 34, 120,
                   34, 58, 49, 125, 44, 123, 34, 110, 97, 109, 101, 34, 58,
                   34, 98, 34, 125, 93, 125>>,
         json |-> JObj(<<Member("files",
                       JArr(<<Named("a"), JObj(<<Member("x", JNum)>>), Named("b")>>))>>) ],
       \* {"files":[{"name":1},1]}
       [ text |-> <<123, 34, 102, 105, 108, 101, 115, 34, 58, 91, 123, 34, 110,
                   97, 109, 101, 34, 58, 49, 125, 44, 49, 93, 125>>,
         json |-> JObj(<<Member("files", JArr(<<JObj(<<Member("name", JNum)>>), JNum>>))>>) ] >>

\* serde_json::from_str on the texts the replies carry; every other text is
\* no JSON.
from_str(text) ==
    IF \E i \in 1..Len(JsonDocuments) : JsonDocuments[i].text = text
    THEN [ok |-> TRUE,
          json |-> JsonDocuments[CHOOSE i \in 1..Len(JsonDocuments) :
                                     JsonDocuments[i].text = text].json]
    ELSE [ok |-> FALSE, json |-> JNull]

\* The regions a JSON reply carries: the documents, "{", and a lone 0xff.
JsonRegions ==
    { JsonDocuments[i].text : i \in 1..Len(JsonDocuments) }
        \cup { <<123>>, <<255>> }

\* What rcall may hand back: any error, and replies of every tag with a
\* value and a region whose length the value does not exceed.
RcallResults ==
    { RcallErr(e) : e \in SyscallErrors }
    \cup { RcallOk(tag, Value(Len(bs)), MemoryHandle(bs)) :
              tag \in {"DATA", "OK"}, bs \in ByteStrings }
    \cup { RcallOk("JSON", Value(Len(bs)), MemoryHandle(bs)) : bs \in JsonRegions }
    \cup { RcallOk(tag, CommHandle(1), Value(1)) : tag \in {"COMM_HANDLE", "DATA", "JSON", "OK"} }
    \cup { RcallOk("OK", Value(n), NoData) : n \in 0..MaxDataLen }

\* File::query, lines 49-76: the match on rcall's result.
QueryResult(r) ==
    IF r.ok /\ r.tag = "JSON" /\ r.data1.kind = "Value"
            /\ r.data2.kind = "MemoryHandle"
    THEN LET u8_slice == as_slice(r.data2, r.data1.value)
         IN  IF from_utf8_ok(u8_slice)
             THEN IF from_str(u8_slice).ok
                  THEN Ok(from_str(u8_slice).json)
                  ELSE Err(SYSCALL_ERROR_PARAM)
             ELSE Err(SYSCALL_ERROR_PARAM)
    ELSE Err(SYSCALL_ERROR_PARAM)

\* File::write, lines 82-97: the match on rcall's result.
WriteResult(r) ==
    IF r.ok /\ r.tag = "OK" /\ r.data1.kind = "Value" THEN Ok(r.data1.value)
    ELSE IF ~r.ok THEN Err(r.err)
    ELSE Err(SYSCALL_ERROR_PARAM)

\* File::read_to_end, lines 100-116: whether the reply is the DATA arm.
IsDataReply(r) ==
    r.ok /\ r.tag = "DATA" /\ r.data1.kind = "Value"
         /\ r.data2.kind = "MemoryHandle"

ReadResult(r) ==
    IF IsDataReply(r) THEN Ok(r.data1.value)
    ELSE IF ~r.ok THEN Err(r.err)
    ELSE Err(SYSCALL_ERROR_PARAM)

\* buf extended by the region of a reply of any tag.
ReadBufAnyTag(buf, r) ==
    IF r.ok /\ r.data1.kind = "Value" /\ r.data2.kind = "MemoryHandle"
    THEN buf \o as_slice(r.data2, r.data1.value)
    ELSE buf

\* buf replaced by the slice instead of extended.
ReadBufReplace(buf, r) ==
    IF IsDataReply(r) THEN as_slice(r.data2, r.data1.value) ELSE buf

\* buf after read_to_end: extended by the slice in the DATA arm only.
ReadBuf(buf, r) ==
    IF IsDataReply(r) THEN buf \o as_slice(r.data2, r.data1.value) ELSE buf

File_query ==
    /\ \E r \in RcallResults :
          /\ fs_op' = "query"
          /\ fs_request' = [tag |-> "QUERY", data1 |-> Value(0), data2 |-> Value(0)]
          /\ fs_rcall' = r
          /\ fs_result' = QueryResult(r)
    /\ UNCHANGED <<fs_file, fs_buf>>
    /\ UNCHANGED notFs

File_write ==
    /\ \E buf \in ByteStrings, r \in RcallResults :
          /\ fs_op' = "write"
          /\ fs_request' = [tag |-> "WRITE", data1 |-> Value(Len(buf)),
                            data2 |-> MemoryHandle(buf)]
          /\ fs_rcall' = r
          /\ fs_result' = WriteResult(r)
    /\ UNCHANGED <<fs_file, fs_buf>>
    /\ UNCHANGED notFs

File_read_to_end ==
    /\ \E r \in RcallResults :
          /\ Len(ReadBuf(fs_buf, r)) <= MaxBufLen
          /\ fs_op' = "read_to_end"
          /\ fs_request' = [tag |-> "READ", data1 |-> Value(0), data2 |-> Value(0)]
          /\ fs_rcall' = r
          /\ fs_result' = ReadResult(r)
          /\ fs_buf' = ReadBuf(fs_buf, r)
    /\ UNCHANGED fs_file
    /\ UNCHANGED notFs

FsInit ==
    /\ fs_file = CommHandle(1)
    /\ fs_buf = <<>>
    /\ fs_op = "none"
    /\ fs_request = [tag |-> "none", data1 |-> Value(0), data2 |-> Value(0)]
    /\ fs_rcall = NoRcall
    /\ fs_result = NoResult

FsSteps ==
    \/ File_query
    \/ File_write
    \/ File_read_to_end

(***************************************************************************)
(* A cooperating file server: it keeps the bytes written to the path and   *)
(* answers READ with all of them.                                          *)
(***************************************************************************)
\* Writes followed on one created file.
MaxWrites == 2

\* The handles syscalls::open returns for File::create and File::open.
WriteHandle == CommHandle(2)

ReadHandle == CommHandle(3)

NoRequest == [tag |-> "none", data1 |-> Value(0), data2 |-> Value(0)]

\* The server's answer to WRITE: it stores the first data1 bytes of the
\* region and acknowledges their number.
ServerStored(request) == as_slice(request.data2, request.data1.value)

ServerWriteReply(request) ==
    RcallOk("OK", Value(Len(ServerStored(request))), NoData)

\* The server's answer to READ: the stored bytes and their number.
ServerReadReply(data) == RcallOk("DATA", Value(Len(data)), MemoryHandle(data))

\* File::create, lines 36-39: open with O_WRITE + O_CREATE + O_TRUNCATE.
File_create ==
    /\ fs_file' = WriteHandle
    /\ fs_op' = "create"
    /\ fs_request' = NoRequest
    /\ fs_rcall' = NoRcall
    /\ fs_result' = Ok(WriteHandle.value)
    /\ srv_data' = <<>>
    /\ srv_mode' = "write"
    /\ fs_written' = <<>>
    /\ UNCHANGED fs_buf
    /\ UNCHANGED notFsServer

\* File::open, lines 41-44: open with O_READ.
File_open ==
    /\ fs_file' = ReadHandle
    /\ fs_op' = "open"
    /\ fs_request' = NoRequest
    /\ fs_rcall' = NoRcall
    /\ fs_result' = Ok(ReadHandle.value)
    /\ srv_mode' = "read"
    /\ UNCHANGED <<fs_buf, srv_data, fs_written>>
    /\ UNCHANGED notFsServer

\* File::write, lines 82-97, answered by the server.
File_write_served ==
    /\ srv_mode = "write"
    /\ Len(fs_written) < MaxWrites
    /\ \E buf \in ByteStrings :
          LET request == [tag |-> "WRITE", data1 |-> Value(Len(buf)),
                          data2 |-> MemoryHandle(buf)]
              r == ServerWriteReply(request)
          IN  /\ fs_op' = "write"
              /\ fs_request' = request
              /\ fs_rcall' = r
              /\ fs_result' = WriteResult(r)
              /\ srv_data' = srv_data \o ServerStored(request)
              /\ fs_written' = Append(fs_written, buf)
    /\ UNCHANGED <<fs_file, fs_buf, srv_mode>>
    /\ UNCHANGED notFsServer

\* File::read_to_end, lines 100-116, answered by the server.
File_read_to_end_served ==
    /\ srv_mode = "read"
    /\ LET r == ServerReadReply(srv_data)
       IN  /\ Len(ReadBuf(fs_buf, r)) <= MaxBufLen
           /\ fs_op' = "read_to_end"
           /\ fs_request' = [tag |-> "READ", data1 |-> Value(0),
                             data2 |-> Value(0)]
           /\ fs_rcall' = r
           /\ fs_result' = ReadResult(r)
           /\ fs_buf' = ReadBuf(fs_buf, r)
    /\ srv_mode' = "eof"
    /\ UNCHANGED <<fs_file, srv_data, fs_written>>
    /\ UNCHANGED notFsServer

SrvInit ==
    /\ srv_data = <<>>
    /\ srv_mode = "closed"
    /\ fs_written = <<>>

FsServerSteps ==
    \/ File_create
    \/ File_open
    \/ File_write_served
    \/ File_read_to_end_served

(***************************************************************************)
(* read_dir and the ReadDir iterator.                                      *)
(***************************************************************************)
\* Calls of next() followed after the iterator is exhausted.
MaxNoneCalls == 2

\* serde_json: value[key] is the member of an object, Null otherwise.
Index(v, key) ==
    IF v.type = "object" /\ \E i \in 1..Len(v.members) : v.members[i].key = key
    THEN v.members[CHOOSE i \in 1..Len(v.members) : v.members[i].key = key].value
    ELSE JNull

\* Value::as_array and Value::as_str: Some for an array, for a string.
as_array(v) == [some |-> v.type = "array", items |-> v.items]

as_str(v) == [some |-> v.type = "string", str |-> v.str]

unwrap_or(option, default) == IF option.some THEN option.str ELSE default

DirEntry(name) == [name |-> name]

\* Option<Result<DirEntry, SyscallError>>
SomeOk(entry) == [some |-> TRUE, name |-> entry.name]

None == [some |-> FALSE, name |-> ""]

\* Lines 153-161: the entries made of the query's "files" member.
EntriesOf(query) ==
    LET files == as_array(Index(query, "files"))
    IN  IF files.some
        THEN [i \in 1..Len(files.items) |->
                 DirEntry(unwrap_or(as_str(Index(files.items[i], "name")),
                                    "_bad_"))]
        ELSE <<>>

\* The first entry taken instead of the last.
pop_first(entries) ==
    IF entries = <<>> THEN [some |-> FALSE, rest |-> entries]
    ELSE [some |-> TRUE, entry |-> Head(entries), rest |-> Tail(entries)]

\* Vec::pop, line 141: the last entry, if any.
pop(entries) ==
    IF entries = <<>> THEN [some |-> FALSE, rest |-> entries]
    ELSE [some |-> TRUE, entry |-> entries[Len(entries)],
          rest |-> SubSeq(entries, 1, Len(entries) - 1)]

\* The directories read_dir is called on.
DirPaths == {"/", "/pci", "/tcp"}

\* read_dir(path), lines 149-168.
read_dir ==
    /\ \E path \in DirPaths, opened \in {"ok"} \cup SyscallErrors,
          r \in RcallResults :
          LET query == QueryResult(r)
          IN  /\ dir_path' = path
              /\ dir_open' = opened
              /\ IF opened # "ok"
                 THEN /\ dir_rcall' = NoRcall
                      /\ dir_result' = Err(opened)
                      /\ dir_entries' = <<>>
                 ELSE /\ dir_rcall' = r
                      /\ IF query.ok
                         THEN /\ dir_result' = Ok(0)
                              /\ dir_entries' = EntriesOf(query.value)
                         ELSE /\ dir_result' = Err(query.err)
                              /\ dir_entries' = <<>>
    /\ dir_yielded' = <<>>
    /\ UNCHANGED notDir

\* ReadDir::next, lines 138-147.
ReadDir_next ==
    /\ dir_result.ok
    /\ \/ dir_entries # <<>>
       \/ Cardinality({ i \in 1..Len(dir_yielded) : ~dir_yielded[i].some })
              < MaxNoneCalls
    /\ LET popped == pop(dir_entries)
       IN  /\ dir_entries' = popped.rest
           /\ dir_yielded' = Append(dir_yielded,
                                    IF popped.some THEN SomeOk(popped.entry)
                                    ELSE None)
    /\ UNCHANGED <<dir_path, dir_open, dir_rcall, dir_result>>
    /\ UNCHANGED notDir

DirInit ==
    /\ dir_path = ""
    /\ dir_open = "none"
    /\ dir_rcall = NoRcall
    /\ dir_result = NoResult
    /\ dir_entries = <<>>
    /\ dir_yielded = <<>>

DirSteps ==
    \/ read_dir
    \/ ReadDir_next

(***************************************************************************)
(* init/src/main.rs                                                        *)
(***************************************************************************)
\* syscalls::EXEC_PERM_IO
EXEC_PERM_IO == 1

\* The first handle number free after STDIN and STDOUT.
FIRST_FREE_HANDLE == 2

\* The lengths the kernel's video memory message carries, and the ids the
\* VGA driver gives to a writer.
VmemLengths == {4096, 8192}

WriterIds == {0, 1}

\* Lines 89-99: the three mount() calls of main().
MountCalls ==
    << [path |-> "/pci", bin |-> "pci", flags |-> EXEC_PERM_IO],
       [path |-> "/dev/nic", bin |-> "rtl8139", flags |-> EXEC_PERM_IO],
       [path |-> "/tcp", bin |-> "tcp", flags |-> 0] >>

NoLocals ==
    [ vmem_length |-> 0, vga_com |-> 0, vga_com2 |-> 0, writer_sys |-> 0,
      writer_sys_id |-> 0, input |-> 0, input2 |-> 0 ]

\* syscalls::STDOUT
STDOUT == 1

\* One system call in the log: new_rendezvous -> (h1, h2); exec(name, flags,
\* stdin h1, stdout h2); mount(name, h1).
Event(op, name, flags, h1, h2, ok) ==
    [op |-> op, name |-> name, flags |-> flags, h1 |-> h1, h2 |-> h2,
     ok |-> ok, value |-> 0, reply |-> ""]

\* A message call in the log: receive(h1) -> reply message with value;
\* send(h1, name message with value); rcall(h1, name) -> reply message with
\* value, or an error.
MessageEvent(op, name, h1, value, reply, ok) ==
    [op |-> op, name |-> name, flags |-> 0, h1 |-> h1, h2 |-> 0,
     ok |-> ok, value |-> value, reply |-> reply]

\* Every reply to OPEN taken as a writer.
open_reply_accepted(reply) == "none"

\* Lines 68-80: the match on the reply to OPEN.
open_reply(reply) ==
    CASE reply = "COMM_HANDLE" -> "none"
      [] reply = "unexpected" -> "[init] Received unexpected message"
      [] OTHER -> "[init] Received error"

\* A failed call taken as if it had succeeded.
carry_on(ok, message) == "none"

\* Result::unwrap and Result::expect: Err panics.
expect(ok, message) == IF ok THEN "none" ELSE message

\* Lines 38-48: receive the video memory message on STDOUT, or panic.
main_receive ==
    /\ init_pc = "l38"
    /\ \E expected \in BOOLEAN, length \in VmemLengths :
          IF expected
          THEN /\ init_locals' = [init_locals EXCEPT !.vmem_length = length]
               /\ init_log' = Append(init_log,
                      MessageEvent("receive", "", STDOUT, length,
                                   "VIDEO_MEMORY", TRUE))
               /\ init_pc' = "l51"
               /\ UNCHANGED init_panic
          ELSE /\ init_panic' = "[init] Expected video memory message"
               /\ init_log' = Append(init_log,
                      MessageEvent("receive", "", STDOUT, 0, "other", TRUE))
               /\ init_pc' = "panic"
               /\ UNCHANGED init_locals
    /\ UNCHANGED <<init_call, init_next_handle>>
    /\ UNCHANGED notInit

\* Line 51: let (vga_com, vga_com2) = syscalls::new_rendezvous().unwrap()
main_new_rendezvous ==
    /\ init_pc = "l51"
    /\ \E ok \in BOOLEAN :
          LET h1 == init_next_handle
              h2 == init_next_handle + 1
              panic == expect(ok, "unwrap on Err")
          IN  /\ init_log' = Append(init_log,
                     IF ok THEN Event("new_rendezvous", "", 0, h1, h2, TRUE)
                     ELSE Event("new_rendezvous", "", 0, 0, 0, FALSE))
              /\ init_panic' = panic
              /\ IF panic = "none"
                 THEN /\ init_locals' = [init_locals EXCEPT !.vga_com = h1,
                                                             !.vga_com2 = h2]
                      /\ init_next_handle' = init_next_handle + 2
                      /\ init_pc' = "l54"
                 ELSE /\ init_pc' = "panic"
                      /\ UNCHANGED <<init_locals, init_next_handle>>
    /\ UNCHANGED init_call
    /\ UNCHANGED notInit

\* Lines 54-58: exec the VGA driver, or panic.
main_exec_vga ==
    /\ init_pc = "l54"
    /\ \E ok \in BOOLEAN :
          LET panic == expect(ok, "[init] Couldn't start VGA program")
          IN  /\ init_log' = Append(init_log,
                     Event("exec", "vga_driver", EXEC_PERM_IO,
                           init_locals.vga_com2, init_locals.vga_com2, ok))
              /\ init_panic' = panic
              /\ init_pc' = IF panic = "none" THEN "l61" ELSE "panic"
    /\ UNCHANGED <<init_call, init_locals, init_next_handle>>
    /\ UNCHANGED notInit

\* Lines 61-65: send the video memory to the VGA driver; the result of
\* the send is not looked at.
main_send_vmem ==
    /\ init_pc = "l61"
    /\ \E ok \in BOOLEAN :
          init_log' = Append(init_log,
              MessageEvent("send", "VIDEO_MEMORY", init_locals.vga_com,
                           init_locals.vmem_length, "", ok))
    /\ init_pc' = "l68"
    /\ UNCHANGED <<init_call, init_locals, init_next_handle, init_panic>>
    /\ UNCHANGED notInit

\* Lines 68-80: open a writer, or panic on an unexpected message or an
\* error.
main_open_writer ==
    /\ init_pc = "l68"
    /\ \E reply \in {"COMM_HANDLE", "unexpected", "error"}, id \in WriterIds :
          LET panic == open_reply(reply)
          IN  /\ init_log' = Append(init_log,
                     MessageEvent("rcall", "OPEN", init_locals.vga_com,
                                  IF reply = "COMM_HANDLE" THEN id ELSE 0,
                                  reply, reply # "error"))
              /\ init_panic' = panic
              /\ IF panic = "none"
                 THEN /\ init_locals' = [init_locals EXCEPT
                                           !.writer_sys = init_next_handle,
                                           !.writer_sys_id = id]
                      /\ init_next_handle' = init_next_handle + 1
                      /\ init_pc' = "l83"
                 ELSE /\ init_pc' = "panic"
                      /\ UNCHANGED <<init_locals, init_next_handle>>
    /\ UNCHANGED init_call
    /\ UNCHANGED notInit

\* Lines 83-87: activate the writer with a WRITE short message.
main_activate ==
    /\ init_pc = "l83"
    /\ \E ok \in BOOLEAN :
          init_log' = Append(init_log,
              MessageEvent("send", "WRITE", init_locals.vga_com,
                           init_locals.writer_sys_id, "", ok))
    /\ init_pc' = "l89"
    /\ UNCHANGED <<init_call, init_locals, init_next_handle, init_panic>>
    /\ UNCHANGED notInit

\* Lines 89-99: the next mount(path, bin, flags, stdout) call, or the end
\* of main().
main_call_mount ==
    /\ init_pc = "l89"
    /\ IF init_call < Len(MountCalls)
       THEN /\ init_call' = init_call + 1
            /\ init_pc' = "l18"
       ELSE /\ init_pc' = "done"
            /\ UNCHANGED init_call
    /\ UNCHANGED <<init_locals, init_next_handle, init_log, init_panic>>
    /\ UNCHANGED notInit

\* Line 18: let (input, input2) = syscalls::new_rendezvous().unwrap()
mount_new_rendezvous ==
    /\ init_pc = "l18"
    /\ \E ok \in BOOLEAN :
          LET h1 == init_next_handle
              h2 == init_next_handle + 1
              panic == expect(ok, "unwrap on Err")
          IN  /\ init_log' = Append(init_log,
                     IF ok THEN Event("new_rendezvous", "", 0, h1, h2, TRUE)
                     ELSE Event("new_rendezvous", "", 0, 0, 0, FALSE))
              /\ init_panic' = panic
              /\ IF panic = "none"
                 THEN /\ init_locals' = [init_locals EXCEPT !.input = h1,
                                                             !.input2 = h2]
                      /\ init_next_handle' = init_next_handle + 2
                      /\ init_pc' = "l21"
                 ELSE /\ init_pc' = "panic"
                      /\ UNCHANGED <<init_locals, init_next_handle>>
    /\ UNCHANGED init_call
    /\ UNCHANGED notInit

\* Lines 21-25: syscalls::exec(bin, flags, input, stdout).expect(...)
mount_exec ==
    /\ init_pc = "l21"
    /\ \E ok \in BOOLEAN :
          LET call == MountCalls[init_call]
              panic == expect(ok, "[init] Couldn't start program")
          IN  /\ init_log' = Append(init_log,
                     Event("exec", call.bin, call.flags, init_locals.input,
                           init_locals.writer_sys, ok))
              /\ init_panic' = panic
              /\ init_pc' = IF panic = "none" THEN "l28" ELSE "panic"
    /\ UNCHANGED <<init_call, init_locals, init_next_handle>>
    /\ UNCHANGED notInit

\* Line 28: syscalls::mount(path, input2); its result is not looked at.
mount_mount ==
    /\ init_pc = "l28"
    /\ \E ok \in BOOLEAN :
          init_log' = Append(init_log,
              Event("mount", MountCalls[init_call].path, 0,
                    init_locals.input2, 0, ok))
    /\ init_pc' = "l89"
    /\ UNCHANGED <<init_call, init_locals, init_next_handle, init_panic>>
    /\ UNCHANGED notInit

InitProcessInit ==
    /\ init_pc = "l38"
    /\ init_call = 0
    /\ init_locals = NoLocals
    /\ init_next_handle = FIRST_FREE_HANDLE
    /\ init_log = <<>>
    /\ init_panic = "none"

InitSteps ==
    \/ main_receive
    \/ main_new_rendezvous
    \/ main_exec_vga
    \/ main_send_vmem
    \/ main_open_writer
    \/ main_activate
    \/ main_call_mount
    \/ mount_new_rendezvous
    \/ mount_exec
    \/ mount_mount

(***************************************************************************)
(* src/process.rs: the locks of RUNNING_QUEUE and CURRENT_THREAD, the      *)
(* interrupt flag, and the timer interrupt.  One processor: the code of    *)
(* the running context and the interrupt handler take turns, and a lock    *)
(* held by interrupted code stays held until that code runs again.         *)
(***************************************************************************)
\* Threads created while the locks are followed.
MaxLockThreads == 3

\* The context that is executing: the current thread, or the boot code.
lk_cpu == IF lk_current = <<>> THEN 0 ELSE lk_current[1]

\* A context outside every enqueue, with the interrupt flag its saved
\* RFLAGS carry.
Outside(rflags_if) ==
    [pc |-> "outside", site |-> "none", was_enabled |-> FALSE,
     rflags_if |-> rflags_if]

\* The closure run with the interrupt flag left as it is.
with_interrupts(enabled) == enabled

\* interrupts::without_interrupts, lines 174 and 292: the interrupt flag
\* while the closure runs.
without_interrupts(enabled) == FALSE

\* The boot code enables interrupts (sti) once the kernel is set up.
interrupts_enable ==
    /\ lk_handler = "none"
    /\ ~lk_deadlock
    /\ lk_cpu = 0
    /\ lk_ctx[0].pc = "outside"
    /\ ~lk_if
    /\ lk_if' = TRUE
    /\ UNCHANGED <<lk_queue_lock, lk_current_lock, lk_queue, lk_current,
                   lk_ctx, lk_handler, lk_made, lk_deadlock>>
    /\ UNCHANGED notLock

\* Lines 174 and 292: without_interrupts saves the flag and disables
\* interrupts.  The new kernel thread's RFLAGS are the creator's (lines
\* 153-159), the new user thread's have the interrupt flag set (line 268).
enqueue_without_interrupts ==
    /\ lk_handler = "none"
    /\ ~lk_deadlock
    /\ lk_ctx[lk_cpu].pc = "outside"
    /\ lk_made + Cardinality({ c \in DOMAIN lk_ctx : lk_ctx[c].pc # "outside" })
          < MaxLockThreads
    /\ \E site \in {"new_kernel_thread", "new_user_thread"} :
          lk_ctx' = [lk_ctx EXCEPT ![lk_cpu] =
                        [pc |-> "write", site |-> site, was_enabled |-> lk_if,
                         rflags_if |-> lk_if]]
    /\ lk_if' = without_interrupts(lk_if)
    /\ UNCHANGED <<lk_queue_lock, lk_current_lock, lk_queue, lk_current,
                   lk_handler, lk_made, lk_deadlock>>
    /\ UNCHANGED notLock

\* Lines 175 and 293: RUNNING_QUEUE.write() spins until the lock is free.
enqueue_write ==
    /\ lk_handler = "none"
    /\ ~lk_deadlock
    /\ lk_ctx[lk_cpu].pc = "write"
    /\ lk_queue_lock = "free"
    /\ lk_queue_lock' = "enqueue"
    /\ lk_ctx' = [lk_ctx EXCEPT ![lk_cpu].pc = "push_back"]
    /\ UNCHANGED <<lk_if, lk_current_lock, lk_queue, lk_current, lk_handler,
                   lk_made, lk_deadlock>>
    /\ UNCHANGED notLock

\* Lines 175 and 293: push_back(new_thread); the guard is dropped at the
\* end of the statement.
enqueue_push_back ==
    /\ lk_handler = "none"
    /\ ~lk_deadlock
    /\ lk_ctx[lk_cpu].pc = "push_back"
    /\ LET new_thread == lk_made + 1
           rflags_if == IF lk_ctx[lk_cpu].site = "new_kernel_thread"
                        THEN lk_ctx[lk_cpu].rflags_if
                        ELSE TRUE
       IN  /\ lk_queue' = Append(lk_queue, new_thread)
           /\ lk_made' = new_thread
           /\ lk_ctx' = [lk_ctx EXCEPT ![lk_cpu].pc = "restore"]
                            @@ (new_thread :> Outside(rflags_if))
    /\ lk_queue_lock' = "free"
    /\ UNCHANGED <<lk_if, lk_current_lock, lk_current, lk_handler,
                   lk_deadlock>>
    /\ UNCHANGED notLock

\* Lines 176 and 294: without_interrupts enables interrupts again if they
\* were enabled before.
enqueue_restore ==
    /\ lk_handler = "none"
    /\ ~lk_deadlock
    /\ lk_ctx[lk_cpu].pc = "restore"
    /\ lk_if' = (lk_if \/ lk_ctx[lk_cpu].was_enabled)
    /\ lk_ctx' = [lk_ctx EXCEPT ![lk_cpu] = Outside(TRUE)]
    /\ UNCHANGED <<lk_queue_lock, lk_current_lock, lk_queue, lk_current,
                   lk_handler, lk_made, lk_deadlock>>
    /\ UNCHANGED notLock

\* The timer interrupt is delivered when the interrupt flag is set; the
\* processor clears the flag on the way into the handler.
timer_interrupt ==
    /\ lk_handler = "none"
    /\ ~lk_deadlock
    /\ lk_if
    /\ lk_if' = FALSE
    /\ lk_handler' = "l307"
    /\ UNCHANGED <<lk_queue_lock, lk_current_lock, lk_queue, lk_current,
                   lk_ctx, lk_made, lk_deadlock>>
    /\ UNCHANGED notLock

\* Line 307: RUNNING_QUEUE.write().  A lock held by the interrupted code is
\* never released while the handler spins.
schedule_next_l307 ==
    /\ lk_handler = "l307"
    /\ ~lk_deadlock
    /\ IF lk_queue_lock = "free"
       THEN /\ lk_queue_lock' = "handler"
            /\ lk_handler' = "l308"
            /\ UNCHANGED lk_deadlock
       ELSE /\ lk_deadlock' = TRUE
            /\ UNCHANGED <<lk_queue_lock, lk_handler>>
    /\ UNCHANGED <<lk_if, lk_current_lock, lk_queue, lk_current, lk_ctx,
                   lk_made>>
    /\ UNCHANGED notLock

\* Line 308: CURRENT_THREAD.write()
schedule_next_l308 ==
    /\ lk_handler = "l308"
    /\ ~lk_deadlock
    /\ IF lk_current_lock = "free"
       THEN /\ lk_current_lock' = "handler"
            /\ lk_handler' = "l310"
            /\ UNCHANGED lk_deadlock
       ELSE /\ lk_deadlock' = TRUE
            /\ UNCHANGED <<lk_current_lock, lk_handler>>
    /\ UNCHANGED <<lk_if, lk_queue_lock, lk_queue, lk_current, lk_ctx,
                   lk_made>>
    /\ UNCHANGED notLock

\* Lines 310-351 and the return from the interrupt: the current thread goes
\* to the tail, the head becomes current, both guards are dropped, and
\* iretq loads the RFLAGS of the context that runs next.  The interrupted
\* context had the interrupt flag set.
schedule_next_l310 ==
    /\ lk_handler = "l310"
    /\ ~lk_deadlock
    /\ LET requeued == lk_queue \o lk_current
           next == IF requeued = <<>> THEN <<>> ELSE <<Head(requeued)>>
           saved == [lk_ctx EXCEPT ![lk_cpu].rflags_if = TRUE]
       IN  /\ lk_queue' = IF requeued = <<>> THEN <<>> ELSE Tail(requeued)
           /\ lk_current' = next
           /\ lk_ctx' = IF lk_current = <<>> THEN lk_ctx ELSE saved
           /\ lk_if' = IF next = <<>> THEN TRUE
                       ELSE IF next = lk_current THEN TRUE
                       ELSE lk_ctx[next[1]].rflags_if
    /\ lk_queue_lock' = "free"
    /\ lk_current_lock' = "free"
    /\ lk_handler' = "none"
    /\ UNCHANGED <<lk_made, lk_deadlock>>
    /\ UNCHANGED notLock

LockInit ==
    /\ lk_if = FALSE
    /\ lk_queue_lock = "free"
    /\ lk_current_lock = "free"
    /\ lk_queue = <<>>
    /\ lk_current = <<>>
    /\ lk_ctx = (0 :> Outside(FALSE))
    /\ lk_handler = "none"
    /\ lk_made = 0
    /\ lk_deadlock = FALSE

LockNext ==
    \/ interrupts_enable
    \/ enqueue_without_interrupts
    \/ enqueue_write
    \/ enqueue_push_back
    \/ enqueue_restore
    \/ timer_interrupt
    \/ schedule_next_l307
    \/ schedule_next_l308
    \/ schedule_next_l310

(***************************************************************************)
(* The specifications: one per part, the other parts at rest.              *)
(***************************************************************************)
Init ==
    /\ SchedInit
    /\ ClockInit
    /\ overflow_checks = FALSE
    /\ FsInit
    /\ SrvInit
    /\ DirInit
    /\ InitProcessInit
    /\ LockInit

Next == SchedNext

Spec == Init /\ [][Next]_vars

InitClock ==
    /\ ClockInit
    /\ overflow_checks \in BOOLEAN
    /\ SchedInit
    /\ FsInit
    /\ SrvInit
    /\ DirInit
    /\ InitProcessInit
    /\ LockInit

ClockNext == ClockSteps

SpecClock == InitClock /\ [][ClockNext]_vars

FsNext == FsSteps

SpecFs == Init /\ [][FsNext]_vars

FsServerNext == FsServerSteps

SpecFsServer == Init /\ [][FsServerNext]_vars

DirNext == DirSteps

SpecDir == Init /\ [][DirNext]_vars

InitNext == InitSteps

SpecInit == Init /\ [][InitNext]_vars

SpecLock == Init /\ [][LockNext]_vars

(***************************************************************************)
(* C1.  For any interleaving of microseconds_monotonic() calls with PIT    *)
(* interrupts, the value a later call returns is never smaller than the    *)
(* value an earlier call returned.                                         *)
(***************************************************************************)
C1_Monotonic ==
    (clk_prev # <<>> /\ clk_last # <<>>) => U64Leq(clk_prev, clk_last)

(***************************************************************************)
(* C2.  Whenever the call loads tsc_per_pit = 0 it does not fail and       *)
(* returns the PIT-derived component only (TSC term 0); before any PIT     *)
(* interrupt that is 0.                                                    *)
(***************************************************************************)
C2_ZeroRateClamped ==
    /\ clk_panic # "div_by_zero"
    /\ (rd_pc = "done" /\ clk_last_rate = 0)
           => clk_last = MicrosFrom(clk_last_pit, U64Zero)

(***************************************************************************)
(* C3.  In every reachable state at most one thread occupies               *)
(* current_thread, no thread is twice in the runnable queue, and the       *)
(* current thread is not in the runnable queue.  (A thread is identified   *)
(* by the kernel stack it owns.)                                           *)
(***************************************************************************)
C3_OneCurrentNoDuplicates ==
    /\ Len(CURRENT_THREAD) <= 1
    /\ \A i, j \in 1..Len(RUNNING_QUEUE) :
          i # j => RUNNING_QUEUE[i].kernel_stack # RUNNING_QUEUE[j].kernel_stack
    /\ ThreadIds(CURRENT_THREAD) \cap ThreadIds(RUNNING_QUEUE) = {}

\* A preempted thread runs again while two others wait.
C3_Witness ==
    /\ Len(CURRENT_THREAD) = 1
    /\ sched_resumed
    /\ Len(RUNNING_QUEUE) >= 2

(***************************************************************************)
(* C4.  After every schedule_next call that selects a thread, the address  *)
(* it returned is that thread's saved context pointer and lies in that     *)
(* thread's kernel stack [kernel_stack, kernel_stack_end), on the first    *)
(* switch into the thread and on every later resume.                       *)
(***************************************************************************)
C4_ReturnedContextInOwnStack ==
    CURRENT_THREAD # <<>> =>
        LET thread == CURRENT_THREAD[1]
        IN  /\ sched_ret = thread.context
            /\ thread.kernel_stack <= sched_ret
            /\ sched_ret < thread.kernel_stack_end

\* A thread resumed after a preemption, among other threads.
C4_Witness ==
    /\ CURRENT_THREAD # <<>>
    /\ sched_resumed
    /\ sched_ret # 0
    /\ RUNNING_QUEUE # <<>>

(***************************************************************************)
(* C5.  For every call of new_user_thread that returns, the page table     *)
(* active when it returns is the one that was active when it was entered,  *)
(* also when the caller was preempted (and other threads ran) while the    *)
(* new page table was switched in.                                         *)
(***************************************************************************)
C5_PageTableRestored ==
    (last_call.call = "new_user_thread" /\ last_call.result # "panic")
        => last_call.exit_pagetable = last_call.entry_pagetable

\* A call that returned Ok after its caller was preempted mid-load.
C5_Witness ==
    /\ last_call.call = "new_user_thread"
    /\ last_call.result = "ok"
    /\ last_call.preempted

(***************************************************************************)
(* C6 as claimed.  No two threads (queued or current) hold the same        *)
(* non-zero page_table_physaddr.                                           *)
(***************************************************************************)
C6_UniqueOwner ==
    \A i, j \in 1..Len(AllThreads) :
        (i # j /\ AllThreads[i].page_table_physaddr # 0)
            => AllThreads[i].page_table_physaddr # AllThreads[j].page_table_physaddr

(***************************************************************************)
(* C6 as amended.  A thread created by a successful new_user_thread is     *)
(* enqueued with a non-zero page_table_physaddr that no other thread was   *)
(* created with, and keeps it until its first turn.                        *)
(***************************************************************************)
C6_FreshTableAtCreation ==
    \A i \in 1..Len(AllThreads) :
        LET t == AllThreads[i]
            id == t.kernel_stack
        IN  (made[id].by = "new_user_thread" /\ id \notin DOMAIN ran_since)
                => /\ t.page_table_physaddr # 0
                   /\ t.page_table_physaddr = made[id].table
                   /\ \A u \in DOMAIN made \ {id} :
                          made[u].table # t.page_table_physaddr

\* Two user threads created and waiting for their first turn.
C6_Witness ==
    \E i, j \in 1..Len(RUNNING_QUEUE) :
        /\ i # j
        /\ made[RUNNING_QUEUE[i].kernel_stack].by = "new_user_thread"
        /\ made[RUNNING_QUEUE[j].kernel_stack].by = "new_user_thread"
        /\ RUNNING_QUEUE[i].kernel_stack \notin DOMAIN ran_since
        /\ RUNNING_QUEUE[j].kernel_stack \notin DOMAIN ran_since

Count(seq, x) == Cardinality({ i \in 1..Len(seq) : seq[i] = x })

\* A thread queued with k threads ahead of it has k + 1 schedule_next calls
\* to wait, counted down from its enqueue; the current thread has none.
TurnsAsDue ==
    /\ \A i \in 1..Len(RUNNING_QUEUE) : due[RUNNING_QUEUE[i].kernel_stack] = i
    /\ \A i \in 1..Len(CURRENT_THREAD) : due[CURRENT_THREAD[i].kernel_stack] = 0

(***************************************************************************)
(* C7 as claimed.  A queued thread with k threads ahead becomes current at *)
(* exactly the (k+1)-th later schedule_next call, and between two          *)
(* consecutive turns of a thread every other ready thread runs exactly     *)
(* once.                                                                   *)
(***************************************************************************)
C7_EveryOtherRunsOnce ==
    /\ TurnsAsDue
    /\ cycle.thread # 0 =>
          \A b \in cycle.others : Count(cycle.ran, b) = 1

(***************************************************************************)
(* C7 as amended.  A queued thread with k threads ahead becomes current at *)
(* exactly the (k+1)-th later schedule_next call; between two consecutive  *)
(* turns of a thread every other thread that was queued when the first     *)
(* turn ended runs exactly once, and a thread created after that does not  *)
(* run in between.  With two threads the current thread alternates.        *)
(***************************************************************************)
C7_RoundRobin ==
    /\ TurnsAsDue
    /\ cycle.thread # 0 =>
          /\ cycle.peers \subseteq cycle.others
          /\ \A b \in cycle.others :
                Count(cycle.ran, b) = IF b \in cycle.peers THEN 1 ELSE 0

\* A thread took its second turn after another thread ran, while a thread
\* created in between is still waiting for its first turn.
C7_Witness ==
    /\ cycle.thread # 0
    /\ Len(cycle.ran) = 1
    /\ cycle.peers # {}
    /\ cycle.others \ cycle.peers # {}

(***************************************************************************)
(* C8.  Every enqueued thread has a non-zero thread id different from the  *)
(* id of every other thread, and the creating call returned that id.       *)
(***************************************************************************)
C8_UniqueNonZeroTid ==
    /\ \A i \in 1..Len(AllThreads) : AllThreads[i].tid # 0
    /\ \A i, j \in 1..Len(AllThreads) :
          i # j => AllThreads[i].tid # AllThreads[j].tid
    /\ last_call.result = "ok" =>
          \A i \in 1..Len(AllThreads) :
              AllThreads[i].kernel_stack = last_call.created
                  => last_call.value = AllThreads[i].tid

\* The error values of new_user_thread.
ElfErrors == {"Expected ELF binary", "Could not parse ELF",
              "Could not get segment data"}

\* The inputs C9 is about: no ELF magic in the first four bytes (shorter
\* inputs included), or a segment whose data is unreadable.
BadElf(bin) ==
    \/ Len(bin.bytes) < 4
    \/ SubSeq(bin.bytes, 1, 4) # ELF_MAGIC
    \/ \E i \in 1..Len(bin.segments) : ~bin.segments[i]

(***************************************************************************)
(* C9.  new_user_thread returns an error for every input without the ELF   *)
(* magic in its first four bytes, inputs shorter than four bytes included, *)
(* and for every input with an unreadable segment; such a call adds no     *)
(* thread and returns with the page table that was active on entry.        *)
(***************************************************************************)
C9_BadElfIsAnError ==
    (last_call.call = "new_user_thread" /\ BadElf(last_call.bin))
        => /\ last_call.result \in ElfErrors
           /\ last_call.created = 0
           /\ last_call.exit_pagetable = last_call.entry_pagetable

(***************************************************************************)
(* C10.  When the rcall of File::query, File::write or File::read_to_end   *)
(* returns an error, the operation returns that same error code.           *)
(***************************************************************************)
C10_ErrorPropagated ==
    (fs_op # "none" /\ ~fs_rcall.ok) => fs_result = Err(fs_rcall.err)


\* The shape of a successful reply each operation expects.
ExpectedShape(op, r) ==
    CASE op = "write" -> r.tag = "OK" /\ r.data1.kind = "Value"
      [] op = "read_to_end" ->
            r.tag = "DATA" /\ r.data1.kind = "Value"
                /\ r.data2.kind = "MemoryHandle"
      [] op = "query" ->
            /\ r.tag = "JSON"
            /\ r.data1.kind = "Value"
            /\ r.data2.kind = "MemoryHandle"
            /\ from_utf8_ok(as_slice(r.data2, r.data1.value))
            /\ from_str(as_slice(r.data2, r.data1.value)).ok
      [] OTHER -> FALSE

(***************************************************************************)
(* C11.  When the successful reply of the server has not the shape the     *)
(* operation expects ((OK, Value, _) for write, (DATA, Value,              *)
(* MemoryHandle) for read_to_end, (JSON, Value, MemoryHandle) holding      *)
(* valid UTF-8 JSON for query), the operation returns InvalidParam and     *)
(* leaves the File handle and the caller's buffer as they were.            *)
(***************************************************************************)
C11_UnexpectedShapeRejected ==
    [][ (fs_rcall'.ok /\ ~ExpectedShape(fs_op', fs_rcall'))
            => /\ fs_result' = Err(SYSCALL_ERROR_PARAM)
               /\ fs_file' = fs_file
               /\ fs_buf' = fs_buf ]_vars

\* read_to_end on a buffer that holds bytes got a JSON reply with a region.
C11_Witness ==
    /\ fs_op = "read_to_end"
    /\ fs_rcall.ok
    /\ fs_rcall.tag = "JSON"
    /\ fs_rcall.data2.kind = "MemoryHandle"
    /\ fs_rcall.data1.value > 0
    /\ fs_buf # <<>>

RECURSIVE Flatten(_)
\* The buffers of a sequence one after the other.
Flatten(bufs) == IF bufs = <<>> THEN <<>> ELSE Head(bufs) \o Flatten(Tail(bufs))

IsPrefix(p, q) == Len(p) <= Len(q) /\ SubSeq(q, 1, Len(p)) = p

(***************************************************************************)
(* C12.  Against a server that stores the written bytes and answers READ   *)
(* with (DATA, Value(len), MemoryHandle): write(bs) returns the length the *)
(* server acknowledged; a following File::open and read_to_end(buf)        *)
(* appends exactly len bytes to buf, keeping what buf held, and returns    *)
(* len; the appended bytes are the written ones, so that after one         *)
(* write(bs) a buf that started empty has bs as its prefix.                *)
(***************************************************************************)
C12_WriteThenRead ==
    [][ /\ fs_op' = "write" =>
              /\ fs_result' = Ok(fs_rcall'.data1.value)
              /\ fs_result'.value = Len(fs_request'.data2.bytes)
        /\ fs_op' = "read_to_end" =>
              LET len == fs_rcall'.data1.value
              IN  /\ fs_result' = Ok(len)
                  /\ Len(fs_buf') = Len(fs_buf) + len
                  /\ SubSeq(fs_buf', 1, Len(fs_buf)) = fs_buf
                  /\ SubSeq(fs_buf', Len(fs_buf) + 1, Len(fs_buf')) =
                         Flatten(fs_written)
                  /\ (fs_buf = <<>> /\ Len(fs_written) = 1)
                         => IsPrefix(fs_written[1], fs_buf') ]_vars

\* The written bytes were read twice: the second read was appended to a
\* buffer that held the first.
C12_Witness ==
    /\ fs_op = "read_to_end"
    /\ fs_result.ok
    /\ fs_result.value > 0
    /\ Len(fs_buf) > fs_result.value
    /\ Len(fs_written) = 1

\* The elements of the "files" array of the reply read_dir got (none when
\* the reply has no such array), and the name an element is listed under.
ReplyFiles ==
    LET doc == from_str(as_slice(dir_rcall.data2, dir_rcall.data1.value)).json
        files == Index(doc, "files")
    IN  IF files.type = "array" THEN files.items ELSE <<>>

NameOf(element) ==
    IF Index(element, "name").type = "string" THEN Index(element, "name").str
    ELSE "_bad_"

(***************************************************************************)
(* C13.  The iterator read_dir returns yields one entry per element of the *)
(* reply's "files" array, nothing added or dropped, last element first,    *)
(* naming an element by its string "name" member or "_bad_" without one;   *)
(* after the last entry every further next() returns None; a reply without *)
(* a "files" array yields nothing.                                         *)
(***************************************************************************)
C13_ReadDirYields ==
    dir_result.ok =>
        LET n == Len(ReplyFiles)
            k == Len(dir_yielded)
        IN  /\ \A i \in 1..k :
                  dir_yielded[i] =
                      IF i <= n
                      THEN [some |-> TRUE, name |-> NameOf(ReplyFiles[n + 1 - i])]
                      ELSE [some |-> FALSE, name |-> ""]
            /\ Len(dir_entries) = IF k < n THEN n - k ELSE 0

\* Three elements, the middle one without a name, were yielded last first,
\* and the next call returned None.
C13_Witness ==
    /\ dir_result.ok
    /\ Len(dir_yielded) = 4
    /\ dir_yielded[1].name = "b"
    /\ dir_yielded[2].name = "_bad_"
    /\ dir_yielded[3].name = "a"
    /\ ~dir_yielded[4].some

(***************************************************************************)
(* C14.  If two PIT interrupts occur between two calls of                  *)
(* microseconds_monotonic(), the second call returns a value strictly      *)
(* greater than the first.                                                 *)
(***************************************************************************)
C14_GreaterAfterTwoInterrupts ==
    (rd_pc = "done" /\ clk_prev # <<>> /\ clk_last # <<>> /\ clk_gap >= 2)
        => U64Less(clk_prev, clk_last)

(***************************************************************************)
(* C16.  A PIT interrupt concurrent with a call shows in both the          *)
(* pit_ticks value and the last_tsc value the call uses, or in neither:    *)
(* no interrupt falls between the two loads.                               *)
(***************************************************************************)
C16_BothOrNeither ==
    rd_pc \in {"l58", "done"} => rd_epoch = rd_pit

(***************************************************************************)
(* C17.  After the first PIT interrupt tsc_per_pit is positive, and it     *)
(* stays positive after every later one.                                   *)
(***************************************************************************)
C17_RatePositive ==
    PIT_TICKS > 0 => TSC_PER_PIT > 0

\* The driver binary each path is served by, and the order of the mounts.
DriverOf(path) ==
    CASE path = "/pci" -> "pci"
      [] path = "/dev/nic" -> "rtl8139"
      [] path = "/tcp" -> "tcp"
      [] OTHER -> "none"

MountOrder == <<"/pci", "/dev/nic", "/tcp">>

\* The positions of the mount calls in the log.
MountsAt == { i \in 1..Len(init_log) : init_log[i].op = "mount" }

\* Whether the event uses handle h.
Uses(event, h) == event.h1 = h \/ event.h2 = h

(***************************************************************************)
(* C15.  init mounts a path only after the exec of that path's driver has  *)
(* succeeded, and with the other endpoint of the fresh rendezvous pair     *)
(* whose first endpoint the driver got; the mounts come in the order /pci, *)
(* /dev/nic, /tcp; a failed exec is a panic, with no exec or mount after   *)
(* it.                                                                     *)
(***************************************************************************)
C15_MountAfterExec ==
    /\ \A i \in MountsAt :
          /\ i >= 3
          /\ init_log[i - 1].op = "exec"
          /\ init_log[i - 1].ok
          /\ init_log[i - 1].name = DriverOf(init_log[i].name)
          /\ init_log[i - 2].op = "new_rendezvous"
          /\ init_log[i - 2].ok
          /\ init_log[i - 2].h1 # init_log[i - 2].h2
          /\ init_log[i - 1].h1 = init_log[i - 2].h1
          /\ init_log[i].h1 = init_log[i - 2].h2
          /\ \A j \in 1..(i - 3) :
                /\ ~Uses(init_log[j], init_log[i - 2].h1)
                /\ ~Uses(init_log[j], init_log[i - 2].h2)
          /\ init_log[i].name =
                 MountOrder[Cardinality({ j \in MountsAt : j <= i })]
    /\ Cardinality(MountsAt) <= Len(MountOrder)
    /\ \A i \in 1..Len(init_log) :
          (init_log[i].op = "exec" /\ ~init_log[i].ok)
              => (i = Len(init_log) /\ init_panic # "none")

\* /pci and /dev/nic are mounted and the exec of the tcp driver failed.
C15_Witness ==
    /\ Cardinality(MountsAt) = 2
    /\ init_panic = "[init] Couldn't start program"
    /\ init_log[Len(init_log)].name = "tcp"

(***************************************************************************)
(* C18.  A schedule_next call made while a thread is current stores the    *)
(* context address it was passed as that thread's context, the active page *)
(* table as its page_table_physaddr, and appends the thread at the tail of *)
(* the runnable queue; the threads already queued keep their order, their  *)
(* contexts, page tables and kernel stacks (the head of the resulting      *)
(* queue is then taken as the current thread).                             *)
(***************************************************************************)
C18_PreemptedThreadSaved ==
    [][ (TimerInterrupt /\ CURRENT_THREAD # <<>>)
            => LET saved == [CURRENT_THREAD[1] EXCEPT
                                !.context = ist_timer - INTERRUPT_CONTEXT_SIZE,
                                !.page_table_physaddr = active_pagetable]
               IN  CURRENT_THREAD' \o RUNNING_QUEUE'
                       = RUNNING_QUEUE \o <<saved>> ]_vars

\* A thread preempted while a page table of its own making was active waits
\* at the tail behind another thread.
C18_Witness ==
    /\ CURRENT_THREAD # <<>>
    /\ Len(RUNNING_QUEUE) >= 2
    /\ LET last == RUNNING_QUEUE[Len(RUNNING_QUEUE)]
       IN  /\ last.kernel_stack \in DOMAIN saved_table
           /\ last.page_table_physaddr = saved_table[last.kernel_stack]
           /\ last.page_table_physaddr # BOOT_PAGETABLE

(***************************************************************************)
(* C19.  Whenever schedule_next returns a non-zero address, the timer's    *)
(* interrupt stack entry is the selected thread's kernel_stack_end and,    *)
(* if the selected thread's page_table_physaddr is non-zero, the active    *)
(* page table is that one; so a thread that was preempted is resumed with  *)
(* the page table that was active when it was preempted.                   *)
(***************************************************************************)
C19_StackAndPageTableOnSwitch ==
    [][ (TimerInterrupt /\ sched_ret' # 0)
            => /\ CURRENT_THREAD' # <<>>
               /\ LET thread == CURRENT_THREAD'[1]
                  IN  /\ ist_timer' = thread.kernel_stack_end
                      /\ thread.page_table_physaddr # 0
                            => active_pagetable' = thread.page_table_physaddr
                      /\ thread.kernel_stack \in DOMAIN saved_table
                            => active_pagetable' =
                                   saved_table'[thread.kernel_stack] ]_vars

\* A thread is resumed with its own page table while a thread preempted
\* with another page table waits.
C19_Witness ==
    /\ CURRENT_THREAD # <<>>
    /\ sched_resumed
    /\ sched_ret # 0
    /\ active_pagetable = saved_table[CURRENT_THREAD[1].kernel_stack]
    /\ active_pagetable # BOOT_PAGETABLE
    /\ \E i \in 1..Len(RUNNING_QUEUE) :
          /\ RUNNING_QUEUE[i].kernel_stack \in DOMAIN saved_table
          /\ saved_table[RUNNING_QUEUE[i].kernel_stack] # active_pagetable

(***************************************************************************)
(* C20.  schedule_next never fails.  It returns 0 exactly when there is no *)
(* current thread and the runnable queue is empty, and then leaves the     *)
(* queue, current_thread, the interrupt stack entry and the active page    *)
(* table as they were; in every other case it installs a current thread    *)
(* and returns a non-zero address.                                         *)
(***************************************************************************)
C20_IdleOnlyWhenNothingToRun ==
    [][ TimerInterrupt
            => /\ sched_panic' = "none"
               /\ (sched_ret' = 0)
                      <=> (CURRENT_THREAD = <<>> /\ RUNNING_QUEUE = <<>>)
               /\ sched_ret' = 0
                      => UNCHANGED <<RUNNING_QUEUE, CURRENT_THREAD, ist_timer,
                                     active_pagetable>>
               /\ sched_ret' # 0 => CURRENT_THREAD' # <<>> ]_vars

\* The timer fired with nothing to run while the boot code was inside
\* new_user_thread.
C20_Witness ==
    /\ sched_idled
    /\ sched_ret = 0
    /\ CURRENT_THREAD = <<>>
    /\ prog[0].pc # "idle"

(***************************************************************************)
(* C23.  With a non-decreasing hardware TSC the unsigned subtractions of   *)
(* the clock never underflow: the TSC a call sampled is never smaller than *)
(* the last_tsc it subtracts (the difference is then at most the sample),  *)
(* and in pit_interrupt_notify new_tsc is never smaller than the previous  *)
(* last_tsc.                                                               *)
(***************************************************************************)
C23_NoUnderflow ==
    /\ clk_panic \notin {"sub_overflow", "pit_sub_overflow"}
    /\ rd_pc \in {"l58", "done"} => U64Leq(rd_tsc, U64(rd_now))

\* The positions in the log of the calls C22 names.
At(op, name) ==
    { i \in 1..Len(init_log) : init_log[i].op = op /\ init_log[i].name = name }

ReceivedAt ==
    { i \in 1..Len(init_log) :
          init_log[i].op = "receive" /\ init_log[i].reply = "VIDEO_MEMORY" }

\* The calls that start a driver behind a mount point.
MountingAt ==
    { i \in 1..Len(init_log) :
          \/ init_log[i].op = "mount"
          \/ init_log[i].op = "exec" /\ init_log[i].name # "vga_driver" }

\* Some position of `earlier` lies before position i.
Before(earlier, i) == \E j \in earlier : j < i

(***************************************************************************)
(* C22.  init starts in a fixed order: it receives VIDEO_MEMORY on its     *)
(* standard output, then starts the VGA driver, then sends it the          *)
(* VIDEO_MEMORY message, then issues OPEN, sends the WRITE activation only *)
(* after a COMM_HANDLE reply and with the id of that reply, and mounts     *)
(* drivers only after that.  If the first message is not VIDEO_MEMORY, or  *)
(* the reply to OPEN is an error or not COMM_HANDLE, init panics, sends no *)
(* WRITE and mounts no driver.                                             *)
(***************************************************************************)
C22_StartupOrder ==
    /\ init_log # <<>> =>
          /\ init_log[1].op = "receive"
          /\ init_log[1].h1 = STDOUT
    /\ \A i \in At("exec", "vga_driver") : Before(ReceivedAt, i)
    /\ \A i \in At("send", "VIDEO_MEMORY") :
          /\ \E j \in At("exec", "vga_driver") : j < i /\ init_log[j].ok
          /\ \E j \in ReceivedAt : init_log[i].value = init_log[j].value
    /\ \A i \in At("rcall", "OPEN") : Before(At("send", "VIDEO_MEMORY"), i)
    /\ \A i \in At("send", "WRITE") :
          /\ i > 1
          /\ init_log[i - 1].op = "rcall"
          /\ init_log[i - 1].name = "OPEN"
          /\ init_log[i - 1].ok
          /\ init_log[i - 1].reply = "COMM_HANDLE"
          /\ init_log[i].value = init_log[i - 1].value
          /\ init_log[i].h1 = init_log[i - 1].h1
    /\ \A i \in MountingAt : Before(At("send", "WRITE"), i)
    /\ \A i \in 1..Len(init_log) :
          \/ init_log[i].op = "receive" /\ init_log[i].reply # "VIDEO_MEMORY"
          \/ init_log[i].op = "rcall" /\ init_log[i].reply # "COMM_HANDLE"
          => /\ i = Len(init_log)
             /\ init_panic # "none"
             /\ At("send", "WRITE") = {}
             /\ MountingAt = {}

\* The writer with id 1 was activated and the first driver mounted.
C22_Witness ==
    /\ \E i \in At("send", "WRITE") : init_log[i].value = 1
    /\ \E i \in 1..Len(init_log) : init_log[i].op = "mount"

(***************************************************************************)
(* C21.  The enqueues of new_kernel_thread and new_user_thread hold the    *)
(* queue lock only with interrupts disabled; so whenever a timer interrupt *)
(* is delivered neither the RUNNING_QUEUE nor the CURRENT_THREAD lock is   *)
(* held, and schedule_next takes both without waiting: the handler never   *)
(* waits for a lock whose holder it interrupted.                           *)
(***************************************************************************)
C21_NoLockHeldAtInterrupt ==
    /\ lk_queue_lock = "enqueue" => ~lk_if
    /\ lk_current_lock # "enqueue"
    /\ lk_handler = "l307" => (lk_queue_lock = "free" /\ lk_current_lock = "free")
    /\ lk_handler = "l308" => lk_current_lock = "free"
    /\ ~lk_deadlock

\* A timer interrupt is delivered to a thread that has enqueued a thread.
C21_Witness ==
    /\ lk_handler = "l307"
    /\ lk_current # <<>>
    /\ lk_made >= 2
    /\ lk_queue # <<>>

===========================================================================
